---- MODULE Spec2Model ----
(***************************************************************************)
(* Request resilience layer of mcp-anchor: ResponseCache (cache.ts),       *)
(* TimeoutManager (timeout.ts) and PerformanceManager (manager.ts),        *)
(* together with the part of ScenarioEngine the manager reads.             *)
(*                                                                         *)
(* Text: a JavaScript string is a sequence of one-character strings.  A    *)
(* scenario name and the decimal text of a seed are written as one atomic  *)
(* word (<<"baseline">>, <<"42">>).  The alphabets used below hold no      *)
(* "%", "+" or blank, so URLSearchParams' percent decoding and encoding    *)
(* leave every name and value as it is.                                    *)
(***************************************************************************)
EXTENDS Integers, Sequences, FiniteSets, TLC

VARIABLES
    now,              \* Date.now(), in milliseconds
    cache,            \* ResponseCache.cache: the Map, in insertion order
    metrics,          \* ResponseCache.metrics
    cacheOpts,        \* ResponseCache.maxEntries, defaultTtlMs, cleanupInterval
    last,             \* the operation performed by the last step and what it returned
    shadow,           \* history: the arguments of the latest set under ProbeKey
    keyA, keyB,       \* the two raw cache keys of the key-canonicalisation check
    tm,               \* TimeoutManager: timeoutHits, totalRequests, config
    calls,            \* the fetchWithTimeout / executeFixtureRequest calls, per slot
    pmConfig,         \* PerformanceManager.config
    currentScenario,  \* ScenarioEngine.currentScenario
    origin,           \* history: per Map key, the scenario active when its writer began
    destroyed,        \* history: destroy() has been called
    env,              \* process.env and the TimeoutManager constructed from it
    away              \* history: the Map keys whose entry has, since it was written,
                      \* seen another scenario than its writer's become current

vars == <<now, cache, metrics, cacheOpts, last, shadow, keyA, keyB,
          tm, calls, pmConfig, currentScenario, origin, destroyed, env, away>>

-----------------------------------------------------------------------------
(* Bounds of the model *)

MaxTime == 3
MaxLookups == 2

-----------------------------------------------------------------------------
(* Text helpers *)

Min(S) == CHOOSE x \in S : \A y \in S : x <= y

\* String.prototype.toLowerCase on one character of the alphabet
Lower(c) ==
    CASE c = "A" -> "a"
      [] c = "B" -> "b"
      [] OTHER -> c

\* UTF-16 code unit of a character, the order Array.prototype.sort compares by
Code(c) ==
    CASE c = "&" -> 38
      [] c = "/" -> 47
      [] c = "1" -> 49
      [] c = "2" -> 50
      [] c = ":" -> 58
      [] c = "=" -> 61
      [] c = "?" -> 63
      [] c = "A" -> 65
      [] c = "B" -> 66
      [] c = "a" -> 97
      [] c = "b" -> 98
      [] OTHER -> 0

\* s < t in the order of String comparison (code unit by code unit)
RECURSIVE StrLess(_, _)
StrLess(s, t) ==
    IF t = <<>> THEN FALSE
    ELSE IF s = <<>> THEN TRUE
    ELSE IF Code(Head(s)) < Code(Head(t)) THEN TRUE
    ELSE IF Code(Head(s)) > Code(Head(t)) THEN FALSE
    ELSE StrLess(Tail(s), Tail(t))

\* String.prototype.split(sep): the pieces between the occurrences of sep
RECURSIVE Split(_, _)
Split(s, sep) ==
    LET at == {i \in 1..Len(s) : s[i] = sep}
    IN  IF at = {} THEN <<s>>
        ELSE <<SubSeq(s, 1, Min(at) - 1)>> \o Split(SubSeq(s, Min(at) + 1, Len(s)), sep)

\* Array.prototype.sort() of strings (insertion into the sorted rest)
RECURSIVE InsertSorted(_, _)
InsertSorted(x, sorted) ==
    IF sorted = <<>> THEN <<x>>
    ELSE IF StrLess(x, Head(sorted)) THEN <<x>> \o sorted
    ELSE <<Head(sorted)>> \o InsertSorted(x, Tail(sorted))

RECURSIVE Sort(_)
Sort(names) ==
    IF names = <<>> THEN <<>> ELSE InsertSorted(Head(names), Sort(Tail(names)))

-----------------------------------------------------------------------------
(* URLSearchParams, as normalizeParams uses it *)

\* one "name=value" piece: split at the first "="
ParsePair(seg) ==
    LET at == {i \in 1..Len(seg) : seg[i] = "="}
    IN  IF at = {} THEN [name |-> seg, value |-> <<>>]
        ELSE [name |-> SubSeq(seg, 1, Min(at) - 1),
              value |-> SubSeq(seg, Min(at) + 1, Len(seg))]

RECURSIVE ParsePieces(_)
ParsePieces(pieces) ==
    IF pieces = <<>> THEN <<>>
    ELSE IF Head(pieces) = <<>> THEN ParsePieces(Tail(pieces))
    ELSE <<ParsePair(Head(pieces))>> \o ParsePieces(Tail(pieces))

\* new URLSearchParams(text): a leading "?" is dropped, empty pieces are skipped
URLSearchParams(text) ==
    LET body == IF text # <<>> /\ Head(text) = "?" THEN Tail(text) ELSE text
    IN  ParsePieces(Split(body, "&"))

\* URLSearchParams.keys()
ParamKeys(pairs) == [i \in 1..Len(pairs) |-> pairs[i].name]

\* URLSearchParams.get(name): the value of the first pair called name, else null
ParamGet(pairs, name) ==
    LET at == {i \in 1..Len(pairs) : pairs[i].name = name}
    IN  IF at = {} THEN <<>> ELSE pairs[Min(at)].value

\* URLSearchParams.set(name, value): the first pair called name takes the value and
\* the others called name go; with none, the pair is appended
ParamSet(pairs, name, value) ==
    LET at == {i \in 1..Len(pairs) : pairs[i].name = name}
    IN  IF at = {} THEN Append(pairs, [name |-> name, value |-> value])
        ELSE LET first == Min(at)
                 keep(i) == i = first \/ pairs[i].name # name
                 RECURSIVE Build(_)
                 Build(i) ==
                     IF i > Len(pairs) THEN <<>>
                     ELSE IF ~keep(i) THEN Build(i + 1)
                     ELSE <<IF i = first THEN [name |-> name, value |-> value]
                                         ELSE pairs[i]>> \o Build(i + 1)
             IN  Build(1)

\* URLSearchParams.toString(): name=value pieces joined by "&"
RECURSIVE ParamsToString(_)
ParamsToString(pairs) ==
    IF pairs = <<>> THEN <<>>
    ELSE Head(pairs).name \o <<"=">> \o Head(pairs).value
         \o (IF Len(pairs) > 1 THEN <<"&">> ELSE <<>>)
         \o ParamsToString(Tail(pairs))

-----------------------------------------------------------------------------
(* ResponseCache: key generation *)

\* the route with its letter case kept
normalizeRoute_KeepCase(route) ==
    LET path == Head(Split(route, "?"))
        RECURSIVE Collapse(_)
        Collapse(i) ==
            IF i > Len(path) THEN <<>>
            ELSE IF path[i] = "/" /\ i > 1 /\ path[i - 1] = "/" THEN Collapse(i + 1)
            ELSE <<path[i]>> \o Collapse(i + 1)
    IN  Collapse(1)

\* route.split('?')[0].toLowerCase().replace(/\/+/g, '/')
normalizeRoute(route) ==
    LET path == Head(Split(route, "?"))
        low == [i \in 1..Len(path) |-> Lower(path[i])]
        RECURSIVE Collapse(_)
        Collapse(i) ==
            IF i > Len(low) THEN <<>>
            ELSE IF low[i] = "/" /\ i > 1 /\ low[i - 1] = "/" THEN Collapse(i + 1)
            ELSE <<low[i]>> \o Collapse(i + 1)
    IN  Collapse(1)

\* the forEach over the sorted keys: sortedParams.set(key, urlParams.get(key) || '')
RECURSIVE SetSorted(_, _, _)
SetSorted(urlParams, keys, sortedParams) ==
    IF keys = <<>> THEN sortedParams
    ELSE SetSorted(urlParams, Tail(keys),
                   ParamSet(sortedParams, Head(keys), ParamGet(urlParams, Head(keys))))

\* The constructor of URLSearchParams does not throw on a string, so the catch
\* branch (return params) is not taken.
normalizeParams(params) ==
    IF params = <<>> THEN <<>>
    ELSE LET urlParams == URLSearchParams(params)
         IN  ParamsToString(SetSorted(urlParams, Sort(ParamKeys(urlParams)), <<>>))

\* `${route}:${params}:${scenario}:${seed}`, with scenario || 'baseline', seed || 42
generateKey(cacheKey) ==
    normalizeRoute(cacheKey.route) \o <<":">>
    \o normalizeParams(cacheKey.params) \o <<":">>
    \o (IF cacheKey.scenario = <<>> THEN <<"baseline">> ELSE cacheKey.scenario) \o <<":">>
    \o <<ToString(IF cacheKey.seed = 0 THEN 42 ELSE cacheKey.seed)>>

-----------------------------------------------------------------------------
(* ResponseCache: the store.  The Map is a sequence of entries in insertion  *)
(* order; an entry carries its Map key.  The route, params, scenario and     *)
(* seed fields of CacheEntry are copies of the raw key that no method reads  *)
(* and are left out.                                                         *)

Null == "null"            \* JavaScript null
NoTtl == <<>>             \* an omitted ttlMs argument; <<n>> is ttlMs = n

DefaultMaxEntries == 1000
DefaultTtl == 300000

\* the constructor's fields: options.maxEntries || 1000, options.defaultTtlMs || 5 min,
\* and the cleanup interval, started when options.cleanupIntervalMs is truthy
ResponseCache(options) ==
    [maxEntries |-> IF options.maxEntries = 0 THEN DefaultMaxEntries
                    ELSE options.maxEntries,
     defaultTtlMs |-> IF options.defaultTtlMs = 0 THEN DefaultTtl
                      ELSE options.defaultTtlMs,
     cleanupInterval |-> options.cleanupIntervalMs # 0]

ZeroMetrics ==
    [cacheHits |-> 0, cacheMisses |-> 0, timeoutHits |-> 0, passthroughCount |-> 0]

\* position of the Map key in the Map, 0 when absent
MapIndex(c, key) ==
    LET at == {i \in 1..Len(c) : c[i].key = key}
    IN  IF at = {} THEN 0 ELSE Min(at)

MapHas(c, key) == MapIndex(c, key) # 0

\* Map.delete(key)
MapDelete(c, key) == SelectSeq(c, LAMBDA e : e.key # key)

\* Map.set(key, entry): an existing key keeps its position, a new one goes last
MapSet(c, key, entry) ==
    IF MapHas(c, key)
    THEN [i \in 1..Len(c) |-> IF c[i].key = key THEN entry ELSE c[i]]
    ELSE Append(c, entry)

\* an entry already counts as expired at an age equal to its TTL
Expired_AtTtl(e, t) == t - e.timestamp >= e.ttl

\* now - entry.timestamp > entry.ttl
Expired(e, t) == t - e.timestamp > e.ttl

\* a lookup of a key that is not stored drops the oldest entry of the Map
get_MissDrops(c, m, cacheKey, t) ==
    LET key == generateKey(cacheKey)
        i == MapIndex(c, key)
    IN  IF i = 0
        THEN [cache |-> IF c = <<>> THEN c ELSE Tail(c),
              metrics |-> [m EXCEPT !.cacheMisses = @ + 1],
              ret |-> Null]
        ELSE IF Expired(c[i], t)
        THEN [cache |-> MapDelete(c, key),
              metrics |-> [m EXCEPT !.cacheMisses = @ + 1], ret |-> Null]
        ELSE LET entry == [c[i] EXCEPT !.hitCount = @ + 1, !.lastAccess = t]
             IN  [cache |-> MapSet(MapDelete(c, key), key, entry),
                  metrics |-> [m EXCEPT !.cacheHits = @ + 1],
                  ret |-> entry.data]

\* get(cacheKey): the new Map, the new metrics and the value returned
get(c, m, cacheKey, t) ==
    LET key == generateKey(cacheKey)
        i == MapIndex(c, key)
    IN  IF i = 0
        THEN [cache |-> c, metrics |-> [m EXCEPT !.cacheMisses = @ + 1], ret |-> Null]
        ELSE IF Expired(c[i], t)
        THEN [cache |-> MapDelete(c, key),
              metrics |-> [m EXCEPT !.cacheMisses = @ + 1], ret |-> Null]
        ELSE LET entry == [c[i] EXCEPT !.hitCount = @ + 1, !.lastAccess = t]
             IN  [cache |-> MapSet(MapDelete(c, key), key, entry),
                  metrics |-> [m EXCEPT !.cacheHits = @ + 1],
                  ret |-> entry.data]

\* evictLRU(): the first entry, in Map order, of the least lastAccess below Date.now()
evictLRU(c, t) ==
    LET older == {i \in 1..Len(c) : c[i].lastAccess < t}
    IN  IF older = {} THEN c
        ELSE LET least == Min({c[i].lastAccess : i \in older})
                 oldest == Min({i \in older : c[i].lastAccess = least})
             IN  MapDelete(c, c[oldest].key)

\* set(cacheKey, data, ttlMs): ttl is ttlMs || defaultTtlMs
set(c, opts, cacheKey, data, ttlMs, t) ==
    LET key == generateKey(cacheKey)
        entry == [key |-> key, data |-> data, timestamp |-> t,
                  ttl |-> IF ttlMs = NoTtl \/ ttlMs[1] = 0 THEN opts.defaultTtlMs
                          ELSE ttlMs[1],
                  hitCount |-> 0, lastAccess |-> t]
        room == IF Len(c) >= opts.maxEntries THEN evictLRU(c, t) ELSE c
    IN  MapSet(room, key, entry)

\* a sweep that deletes every entry, expired or not
cleanup_DropsAll(c, t) == SelectSeq(c, LAMBDA e : FALSE)

\* a sweep that finds nothing to delete
cleanup_KeepsAll(c, t) == c

\* cleanup(): every expired entry is deleted
cleanup(c, t) == SelectSeq(c, LAMBDA e : ~Expired(e, t))

\* has(cacheKey): the new Map and the answer
has(c, cacheKey, t) ==
    LET key == generateKey(cacheKey)
        i == MapIndex(c, key)
    IN  IF i = 0 THEN [cache |-> c, ret |-> FALSE]
        ELSE IF Expired(c[i], t) THEN [cache |-> MapDelete(c, key), ret |-> FALSE]
        ELSE [cache |-> c, ret |-> TRUE]

-----------------------------------------------------------------------------
(* Inputs *)

\* what a fixture operation may resolve with
Values == {Null, "v1"}

Baseline == <<"baseline">>
HeavyTail == <<"heavyTail">>

RouteInputs ==
    { <<"/", "a">>, <<"/", "A">>, <<"/", "/", "a">>, <<"/", "a", "?", "b">>,
      <<"/", "b">> }

ParamInputs ==
    { <<>>,
      <<"a", "=", "1", "&", "b", "=", "2">>, <<"b", "=", "2", "&", "a", "=", "1">>,
      <<"a", "=", "1", "&", "a", "=", "2">>, <<"a", "=", "2", "&", "a", "=", "1">>,
      <<"a", "=", "1">> }

ScenarioInputs == { Baseline, HeavyTail }

SeedInputs == { 0, 7, 42 }

\* every raw CacheKey over the inputs
KeySpace ==
    [route : RouteInputs, params : ParamInputs, scenario : ScenarioInputs,
     seed : SeedInputs]

CK(route, params, scenario, seed) ==
    [route |-> route, params |-> params, scenario |-> scenario, seed |-> seed]

\* the raw keys the cache operations are driven with: three entries, one of them
\* reachable under a second spelling
CacheKeyInputs ==
    { CK(<<"/", "a">>, <<>>, Baseline, 42),
      CK(<<"/", "A">>, <<>>, Baseline, 42),
      CK(<<"/", "b">>, <<>>, Baseline, 42) }

CacheValues == {"v1", "v2"}

TtlInputs == { NoTtl, <<0>>, <<1>> }

NoShadow == [isSet |-> FALSE, data |-> Null, ttlMs |-> NoTtl, at |-> 0]
NoKey == CK(<<>>, <<>>, <<>>, 0)
NoLast == [op |-> "init", ck |-> NoKey, ret |-> Null, call |-> 0]

\* a step other than a lookup
Other == [op |-> "other", ck |-> NoKey, ret |-> Null, call |-> 0]

\* the Map key whose history shadow follows
ProbeKey == generateKey(CK(<<"/", "a">>, <<>>, Baseline, 42))

-----------------------------------------------------------------------------
(* TimeoutManager.  A call occupies a slot; its primary operation, its budget  *)
(* timer and its fallback operation each settle at a due time.  The clock      *)
(* advances only when nothing is due, so what is due earlier settles earlier,  *)
(* and what is due at the same instant settles in either order.                *)

NumCalls == 2
MaxRequests == 2

CallIds == 1..NumCalls

NoError == [isError |-> FALSE, message |-> <<>>]

\* new Error(message), the message as a sequence of words
Error(message) == [isError |-> TRUE, message |-> message]

\* new Error(`Fixture timeout after ${timeoutMs}ms`)
TimeoutError(timeoutMs) ==
    Error(<<"Fixture", "timeout", "after", ToString(timeoutMs), "ms">>)

\* what a primary operation may reject with: an Error, an Error whose message
\* mentions a timeout of its own, and a value that is no Error
PrimaryErrors ==
    { Error(<<"boom">>), Error(<<"upstream", "timeout">>),
      [isError |-> FALSE, message |-> <<"timeout">>] }

\* the call has returned or thrown and its caller has not yet taken the outcome
Finished(call) ==
    call.pc = "done" \/ (call.pc = "settled" /\ ~call.mgr /\ ~call.batch)

FallbackErrors == { Error(<<"passthrough", "down">>) }

PassthroughValues == {"p1"}

\* milliseconds a primary operation takes, and a fallback operation
Latencies == {1, 3}
FallbackLatencies == {1}

NoOutcome ==
    [kind |-> "none", result |-> Null, timedOut |-> FALSE, source |-> "none",
     fromCache |-> FALSE, error |-> NoError]

\* a call that returned { result, timedOut, source } (fromCache is the manager's)
Returned(result, timedOut, source, fromCache) ==
    [kind |-> "value", result |-> result, timedOut |-> timedOut, source |-> source,
     fromCache |-> fromCache, error |-> NoError]

\* a call that threw
Thrown(error) == [NoOutcome EXCEPT !.kind = "error", !.error = error]

\* what an operation settled with, kept as history
NoSettle == [kind |-> "none", result |-> Null, error |-> NoError]
Resolved(v) == [kind |-> "value", result |-> v, error |-> NoError]
Rejected(e) == [kind |-> "error", result |-> Null, error |-> e]

NoScenario == [name |-> <<>>, seed |-> 0]

IdleCall ==
    [pc |-> "idle",               \* idle, racing, fallback, settled, done
     mgr |-> FALSE,               \* begun by executeFixtureRequest
     batch |-> FALSE,             \* begun by fetchMultipleWithTimeout
     cacheKey |-> NoKey,          \* executeFixtureRequest's cacheKey
     enableCache |-> TRUE,        \* options.enableCache !== false
     ttlMs |-> NoTtl,             \* options.ttlMs
     timeoutMs |-> 0,             \* the budget read when the call began
     timerDue |-> 0, timerPending |-> FALSE,
     primaryDue |-> 0, primaryPending |-> FALSE,
     hasFallback |-> FALSE,       \* a fallbackFn was passed
     fallbackDue |-> 0,
     out |-> NoOutcome,           \* what the call returned or threw
     \* history
     scenario |-> NoScenario,     \* the scenario active when the call began
     fixtureRuns |-> 0,           \* invocations of the primary operation
     passthroughRuns |-> 0,       \* invocations of the fallback operation
     first |-> "none",            \* what settled the race: resolve, reject, timer
     raced |-> NoSettle,          \* what the winner of the race settled with
     passthroughOn |-> FALSE,     \* config.enablePassthrough when the race was caught
     fell |-> NoSettle]           \* what the fallback operation settled with

\* the constructor: counters at zero, the configuration as given
TimeoutManager(config) ==
    [timeoutHits |-> 0, totalRequests |-> 0, config |-> config]

\* error instanceof Error && error.message.includes('timeout')
isTimeout(error) ==
    error.isError /\ \E i \in 1..Len(error.message) : error.message[i] = "timeout"

\* a fallback is used whenever one was passed
UseFallback_IgnoresConfig(config, hasFallback) == hasFallback

\* this.config.enablePassthrough && fallbackFn
UseFallback(config, hasFallback) == config.enablePassthrough /\ hasFallback

\* the primary's result reported as timed out
FixtureOutcome_TimedOut(result) == Returned(result, TRUE, "fixture", FALSE)

\* { result, timedOut: false, source: 'fixture' }
FixtureOutcome(result) == Returned(result, FALSE, "fixture", FALSE)

\* the fallback's result reported as if the budget had held
PassthroughOutcome_NotTimedOut(result) == Returned(result, FALSE, "passthrough", FALSE)

\* { result: fallbackResult, timedOut: true, source: 'passthrough' }
PassthroughOutcome(result) == Returned(result, TRUE, "passthrough", FALSE)

\* fetchWithTimeout awaiting fetchFn alone: no timer is set
BeginRace_NoTimer(call, t, timeoutMs, latency, hasFallback) ==
    [call EXCEPT !.pc = "racing",
                 !.timeoutMs = timeoutMs,
                 !.primaryDue = t + latency, !.primaryPending = TRUE,
                 !.hasFallback = hasFallback,
                 !.fixtureRuns = 1]

\* fetchWithTimeout up to its await: the request is counted, the timer is set and
\* fetchFn is called
BeginRace(call, t, timeoutMs, latency, hasFallback) ==
    [call EXCEPT !.pc = "racing",
                 !.timeoutMs = timeoutMs,
                 !.timerDue = t + timeoutMs, !.timerPending = TRUE,
                 !.primaryDue = t + latency, !.primaryPending = TRUE,
                 !.hasFallback = hasFallback,
                 !.fixtureRuns = 1]

\* a catch block that calls the fallback a second time after the first
Caught_CallsTwice(call, config, error, t, fallbackLatency) ==
    LET seen == [call EXCEPT !.raced = Rejected(error),
                             !.passthroughOn = config.enablePassthrough]
    IN  IF isTimeout(error) /\ UseFallback(config, call.hasFallback)
        THEN [seen EXCEPT !.pc = "fallback", !.fallbackDue = t + fallbackLatency,
                          !.passthroughRuns = @ + 2]
        ELSE [seen EXCEPT !.pc = "settled", !.out = Thrown(error)]

\* the catch block, entered with the rejection that won the race: the call after it
Caught(call, config, error, t, fallbackLatency) ==
    LET seen == [call EXCEPT !.raced = Rejected(error),
                             !.passthroughOn = config.enablePassthrough]
    IN  IF isTimeout(error) /\ UseFallback(config, call.hasFallback)
        THEN [seen EXCEPT !.pc = "fallback", !.fallbackDue = t + fallbackLatency,
                          !.passthroughRuns = @ + 1]
        ELSE [seen EXCEPT !.pc = "settled", !.out = Thrown(error)]

\* a timeout that is never counted
CaughtHits_NoCount(hits, error) == hits

\* the catch block's count of a timeout
CaughtHits(hits, error) == IF isTimeout(error) THEN hits + 1 ELSE hits

\* nothing is due: the clock may advance
NothingDue ==
    \A c \in DOMAIN calls :
        /\ calls[c].primaryPending => calls[c].primaryDue > now
        /\ calls[c].timerPending => calls[c].timerDue > now
        /\ calls[c].pc = "fallback" => calls[c].fallbackDue > now
        /\ ~(calls[c].pc = "settled" /\ calls[c].mgr)
        /\ ~(calls[c].pc = "settled" /\ calls[c].batch
               /\ \A d \in DOMAIN calls : calls[d].batch => calls[d].pc = "settled")

\* what the settling of an operation or a timer leaves alone
execFrame ==
    <<now, cache, metrics, cacheOpts, shadow, keyA, keyB, pmConfig, currentScenario,
      origin, destroyed, env, away>>


\* the slot holds no call and no abandoned operation or timer, and is the lowest
\* such slot, so that equal runs are not told apart by slot
SlotFree(c) ==
    LET free(d) == /\ calls[d].pc = "idle"
                   /\ ~calls[d].primaryPending
                   /\ ~calls[d].timerPending
    IN  free(c) /\ \A d \in DOMAIN calls : free(d) => c <= d

\* every outcome has been taken by its caller.  An outcome is taken before anything
\* else happens: the record of a finished call is history, and keeping it longer
\* would only tell equal program states apart.
Quiet == \A c \in DOMAIN calls : ~Finished(calls[c])

\* the caller takes the outcome: the slot is left with what is still pending in it
Return(c) ==
    /\ Finished(calls[c])
    /\ calls' = [calls EXCEPT ![c] =
                    [IdleCall EXCEPT !.primaryPending = calls[c].primaryPending,
                                     !.primaryDue = calls[c].primaryDue,
                                     !.timerPending = calls[c].timerPending,
                                     !.timerDue = calls[c].timerDue]]
    /\ last' = Other
    /\ UNCHANGED <<tm, execFrame>>

\* the primary operation resolves while the race is open
PrimaryResolve(c, v) ==
    /\ Quiet
    /\ calls[c].pc = "racing"
    /\ calls[c].primaryPending /\ calls[c].primaryDue <= now
    /\ calls' = [calls EXCEPT ![c] =
                    [@ EXCEPT !.pc = "settled", !.out = FixtureOutcome(v),
                              !.primaryPending = FALSE, !.primaryDue = 0,
                              !.first = "resolve", !.raced = Resolved(v)]]
    /\ last' = Other
    /\ UNCHANGED <<tm, execFrame>>

\* the primary operation rejects while the race is open
PrimaryReject(c, e, fallbackLatency) ==
    /\ Quiet
    /\ calls[c].pc = "racing"
    /\ calls[c].primaryPending /\ calls[c].primaryDue <= now
    /\ calls' = [calls EXCEPT ![c] =
                    [Caught(@, tm.config, e, now, fallbackLatency)
                        EXCEPT !.primaryPending = FALSE, !.primaryDue = 0,
                               !.first = "reject"]]
    /\ tm' = [tm EXCEPT !.timeoutHits = CaughtHits(@, e)]
    /\ last' = Other
    /\ UNCHANGED execFrame

\* the primary operation settles without waiting for anything: its promise settles
\* in the microtasks of the call, before any timer callback can run
Immediate(call) ==
    call.primaryPending /\ call.primaryDue = call.timerDue - call.timeoutMs

\* the budget timer fires while the race is open
TimerFire(c, fallbackLatency) ==
    /\ Quiet
    /\ calls[c].pc = "racing"
    /\ calls[c].timerPending /\ calls[c].timerDue <= now
    /\ ~Immediate(calls[c])
    /\ calls' = [calls EXCEPT ![c] =
                    [Caught(@, tm.config, TimeoutError(calls[c].timeoutMs), now,
                            fallbackLatency)
                        EXCEPT !.timerPending = FALSE, !.timerDue = 0,
                               !.first = "timer"]]
    /\ tm' = [tm EXCEPT !.timeoutHits = CaughtHits(@, TimeoutError(calls[c].timeoutMs))]
    /\ last' = Other
    /\ UNCHANGED execFrame

\* the fallback operation resolves
FallbackResolve(c, v) ==
    /\ Quiet
    /\ calls[c].pc = "fallback"
    /\ calls[c].fallbackDue <= now
    /\ calls' = [calls EXCEPT ![c] =
                    [@ EXCEPT !.pc = "settled", !.out = PassthroughOutcome(v),
                              !.fallbackDue = 0, !.fell = Resolved(v)]]
    /\ last' = Other
    /\ UNCHANGED <<tm, execFrame>>

\* the fallback operation rejects: throw fallbackError
FallbackReject(c, e) ==
    /\ Quiet
    /\ calls[c].pc = "fallback"
    /\ calls[c].fallbackDue <= now
    /\ calls' = [calls EXCEPT ![c] =
                    [@ EXCEPT !.pc = "settled", !.out = Thrown(e),
                              !.fallbackDue = 0, !.fell = Rejected(e)]]
    /\ last' = Other
    /\ UNCHANGED <<tm, execFrame>>

\* the late result of the primary operation takes the place of the call's outcome
PrimaryLate_Delivers(c) ==
    /\ Quiet
    /\ calls[c].pc # "racing"
    /\ calls[c].primaryPending /\ calls[c].primaryDue <= now
    /\ calls' = [calls EXCEPT ![c] = [@ EXCEPT !.primaryPending = FALSE, !.primaryDue = 0,
                                                !.out = FixtureOutcome("v1")]]
    /\ last' = Other
    /\ UNCHANGED <<tm, execFrame>>

\* the primary operation settles after the race was decided: nobody listens
PrimaryLate(c) ==
    /\ Quiet
    /\ calls[c].pc # "racing"
    /\ calls[c].primaryPending /\ calls[c].primaryDue <= now
    /\ calls' = [calls EXCEPT ![c] = [@ EXCEPT !.primaryPending = FALSE, !.primaryDue = 0]]
    /\ last' = Other
    /\ UNCHANGED <<tm, execFrame>>

\* the timer fires after the race was decided: Promise.race has settled already
TimerLate(c) ==
    /\ Quiet
    /\ calls[c].pc # "racing"
    /\ calls[c].timerPending /\ calls[c].timerDue <= now
    /\ calls' = [calls EXCEPT ![c] = [@ EXCEPT !.timerPending = FALSE, !.timerDue = 0]]
    /\ last' = Other
    /\ UNCHANGED <<tm, execFrame>>

\* every way an operation or a timer of call c can settle
Settle(c) ==
    \/ \E v \in Values : PrimaryResolve(c, v)
    \/ \E e \in PrimaryErrors, l \in FallbackLatencies : PrimaryReject(c, e, l)
    \/ \E l \in FallbackLatencies : TimerFire(c, l)
    \/ \E v \in PassthroughValues : FallbackResolve(c, v)
    \/ \E e \in FallbackErrors : FallbackReject(c, e)
    \/ PrimaryLate(c)
    \/ TimerLate(c)

-----------------------------------------------------------------------------
(* The state outside the cache, and the parts of Init *)

keyVars == <<keyA, keyB>>
execVars == <<tm, calls>>
mgrVars == <<pmConfig, currentScenario, origin, destroyed, env, away>>

\* what the ResponseCache methods leave alone
nonCacheVars == <<keyVars, execVars, mgrVars>>

CacheInit(options) ==
    /\ now = 0
    /\ cache = <<>>
    /\ metrics = ZeroMetrics
    /\ cacheOpts = ResponseCache(options)
    /\ last = NoLast
    /\ shadow = NoShadow

NoKeysInit ==
    /\ keyA = NoKey
    /\ keyB = NoKey

NoTimeoutConfig == [fixtureTimeoutMs |-> 0, enablePassthrough |-> FALSE]

\* process.env is not read
NoEnv == [constructed |-> FALSE]

NoCallsInit ==
    /\ tm = TimeoutManager(NoTimeoutConfig)
    /\ calls = [c \in CallIds |-> IdleCall]

NoManagerInit ==
    /\ pmConfig = [cache |-> [enabled |-> FALSE, maxEntries |-> 0, defaultTtlMs |-> 0,
                              cleanupIntervalMs |-> 0],
                   timeout |-> NoTimeoutConfig]
    /\ currentScenario = NoScenario
    /\ origin = <<>>
    /\ destroyed = FALSE
    /\ env = NoEnv
    /\ away = {}

-----------------------------------------------------------------------------
(* ResponseCache driven directly: get, set, has, cleanup, clear and the clock *)

\* the options the cache under test is constructed with
CacheOptions == [maxEntries |-> 2, defaultTtlMs |-> 2, cleanupIntervalMs |-> 0]

Tick ==
    /\ now < MaxTime
    /\ now' = now + 1

CacheTick ==
    /\ Tick
    /\ last' = Other
    /\ UNCHANGED <<cache, metrics, cacheOpts, shadow, nonCacheVars>>

CacheGet(ck) ==
    /\ metrics.cacheHits + metrics.cacheMisses < MaxLookups
    /\ LET r == get(cache, metrics, ck, now)
       IN  /\ cache' = r.cache
           /\ metrics' = r.metrics
           /\ last' = [op |-> "get", ck |-> ck, ret |-> r.ret, call |-> 0]
    /\ UNCHANGED <<now, cacheOpts, shadow, nonCacheVars>>

CacheSet(ck, data, ttlMs) ==
    /\ cache' = set(cache, cacheOpts, ck, data, ttlMs, now)
    /\ shadow' = IF generateKey(ck) = ProbeKey
                 THEN [isSet |-> TRUE, data |-> data, ttlMs |-> ttlMs, at |-> now]
                 ELSE shadow
    /\ last' = Other
    /\ UNCHANGED <<now, metrics, cacheOpts, nonCacheVars>>

CacheHas(ck) ==
    /\ LET r == has(cache, ck, now)
       IN  /\ cache' = r.cache
           /\ last' = Other
    /\ UNCHANGED <<now, metrics, cacheOpts, shadow, nonCacheVars>>

CacheCleanup ==
    /\ cache' = cleanup(cache, now)
    /\ last' = [Other EXCEPT !.op = "cleanup"]
    /\ UNCHANGED <<now, metrics, cacheOpts, shadow, nonCacheVars>>

\* clear(): the Map is emptied and the metrics start again
CacheClear ==
    /\ cache' = <<>>
    /\ metrics' = ZeroMetrics
    /\ last' = Other
    /\ UNCHANGED <<now, cacheOpts, shadow, nonCacheVars>>

InitCache ==
    /\ CacheInit(CacheOptions)
    /\ NoKeysInit
    /\ NoCallsInit
    /\ NoManagerInit

NextCache ==
    \/ CacheTick
    \/ \E ck \in CacheKeyInputs : CacheGet(ck)
    \/ \E ck \in CacheKeyInputs, data \in CacheValues, ttlMs \in TtlInputs :
           CacheSet(ck, data, ttlMs)
    \/ \E ck \in CacheKeyInputs : CacheHas(ck)
    \/ CacheCleanup
    \/ CacheClear

SpecCache == InitCache /\ [][NextCache]_vars

-----------------------------------------------------------------------------
(* ResponseCache at capacity: three distinct keys for two places *)

LruKeyInputs ==
    { CK(<<"/", "a">>, <<>>, Baseline, 42),
      CK(<<"/", "b">>, <<>>, Baseline, 42),
      CK(<<"/", "c">>, <<>>, Baseline, 42) }

NextLru ==
    \/ CacheTick
    \/ \E ck \in LruKeyInputs : CacheGet(ck)
    \/ \E ck \in LruKeyInputs : CacheSet(ck, "v1", NoTtl)
    \/ \E ck \in LruKeyInputs : CacheHas(ck)
    \/ CacheCleanup
    \/ CacheClear

SpecLru == InitCache /\ [][NextLru]_vars

-----------------------------------------------------------------------------
(* Key canonicalisation: set under keyA, then get under keyB, on a fresh cache *)

KeyStore ==
    /\ last.op = "init"
    /\ cache' = set(cache, cacheOpts, keyA, "v1", NoTtl, now)
    /\ last' = Other
    /\ UNCHANGED <<now, metrics, cacheOpts, shadow, nonCacheVars>>

KeyLookup ==
    /\ last.op = "other"
    /\ LET r == get(cache, metrics, keyB, now)
       IN  /\ cache' = r.cache
           /\ metrics' = r.metrics
           /\ last' = [op |-> "get", ck |-> keyB, ret |-> r.ret, call |-> 0]
    /\ UNCHANGED <<now, cacheOpts, shadow, nonCacheVars>>

InitKey ==
    /\ CacheInit([maxEntries |-> 0, defaultTtlMs |-> 0, cleanupIntervalMs |-> 0])
    /\ keyA \in KeySpace
    /\ keyB \in KeySpace
    /\ NoCallsInit
    /\ NoManagerInit

NextKey == KeyStore \/ KeyLookup

SpecKey == InitKey /\ [][NextKey]_vars

-----------------------------------------------------------------------------
(* The clock while calls are in flight *)

ExecTick ==
    /\ Tick
    /\ Quiet
    /\ NothingDue
    /\ last' = Other
    /\ UNCHANGED <<cache, metrics, cacheOpts, shadow, nonCacheVars>>

-----------------------------------------------------------------------------
(* ScenarioEngine and PerformanceManager *)

\* the names initializeScenarios registers
RegisteredScenarios == { Baseline, HeavyTail, <<"fraudSpike">> }

\* setScenario(config): an unknown name changes nothing
setScenario(current, config) ==
    IF config.name \notin RegisteredScenarios THEN current ELSE config

\* the cacheKey executeFixtureRequest builds: seed is scenario.seed || 42
RequestKey(scenario, route, params) ==
    [route |-> route, params |-> params, scenario |-> scenario.name,
     seed |-> IF scenario.seed = 0 THEN 42 ELSE scenario.seed]

\* the option of the call is not looked at
CacheInUse_Global(config, enableCache) == config.cache.enabled

\* the cache is consulted and written only when enabled globally and for the call
CacheInUse(config, enableCache) == config.cache.enabled /\ enableCache

\* every successful result is stored, whatever its source
ShouldStore_AnySource(config, call) ==
    config.cache.enabled /\ call.enableCache

\* no result is ever stored
ShouldStore_Never(config, call) == FALSE

\* config.cache.enabled && source === 'fixture' && !timedOut && enableCache !== false
ShouldStore(config, call) ==
    /\ config.cache.enabled
    /\ call.out.source = "fixture"
    /\ ~call.out.timedOut
    /\ call.enableCache

\* whatever the lookup returned is taken for a hit
IsCached_Always(cachedResult) == TRUE

\* a lookup that returned data is taken for a hit: cachedResult !== null
IsCached(cachedResult) == cachedResult # Null

\* an executor failure reported as a degraded result instead of being thrown
Rethrow_Swallowed(out) == Returned(Null, TRUE, "passthrough", FALSE)

\* catch (error) { ...; throw error }
Rethrow(out) == out

\* the executor's outcome as executeFixtureRequest returns it
ManagerOutcome(out) ==
    Returned(out.result, out.timedOut,
             IF out.source = "fixture" THEN "fixture" ELSE "passthrough", FALSE)

\* getMetrics(): the cache's counters, with timeoutHits and totalRequests taken from
\* the TimeoutManager
getMetrics(m, t) ==
    [cacheHits |-> m.cacheHits, cacheMisses |-> m.cacheMisses,
     timeoutHits |-> t.timeoutHits, passthroughCount |-> m.passthroughCount,
     totalRequests |-> t.totalRequests]

\* executeFixtureRequest up to its first await: the key is built from the current
\* scenario, the cache is read, and on a miss fetchWithTimeout begins
ExecStart(c, route, params, enableCache, ttlMs, latency) ==
    LET cacheKey == RequestKey(currentScenario, route, params)
        fresh == [IdleCall EXCEPT !.mgr = TRUE, !.cacheKey = cacheKey,
                                  !.enableCache = enableCache, !.ttlMs = ttlMs,
                                  !.scenario = currentScenario]
        read == CacheInUse(pmConfig, enableCache)
        r == get(cache, metrics, cacheKey, now)
    IN  /\ Quiet
        /\ SlotFree(c)
        /\ metrics.cacheHits + metrics.cacheMisses < MaxLookups
        /\ IF read /\ IsCached(r.ret)
           THEN /\ calls' = [calls EXCEPT ![c] =
                                [fresh EXCEPT !.pc = "done",
                                              !.out = Returned(r.ret, FALSE, "cache", TRUE)]]
                /\ UNCHANGED tm
           ELSE /\ tm.totalRequests < MaxRequests
                /\ calls' = [calls EXCEPT ![c] =
                                BeginRace(fresh, now, tm.config.fixtureTimeoutMs, latency,
                                          TRUE)]
                /\ tm' = [tm EXCEPT !.totalRequests = @ + 1]
        /\ cache' = IF read THEN r.cache ELSE cache
        /\ metrics' = IF read THEN r.metrics ELSE metrics
        /\ last' = Other
        /\ UNCHANGED <<now, cacheOpts, shadow, keyVars, mgrVars>>

\* a write under the key of the scenario that is current when the result arrives
WriteKey_Current(call) ==
    RequestKey(currentScenario, call.cacheKey.route, call.cacheKey.params)

\* cache.set(cacheKey, ...): the const cacheKey the call built before its lookup
WriteKey(call) == call.cacheKey

\* executeFixtureRequest after fetchWithTimeout settled: a fixture result is stored,
\* a timeout is noted in the cache metrics and the outcome is returned; an error is
\* thrown on
ExecContinue(c) ==
    LET call == calls[c]
        key == generateKey(WriteKey(call))
    IN  /\ Quiet
        /\ call.pc = "settled"
        /\ call.mgr
        /\ IF call.out.kind = "value"
           THEN /\ cache' = IF ShouldStore(pmConfig, call)
                            THEN set(cache, cacheOpts, WriteKey(call), call.out.result,
                                     call.ttlMs, now)
                            ELSE cache
                /\ origin' = IF ShouldStore(pmConfig, call)
                             THEN [k \in DOMAIN origin \cup {key} |->
                                       IF k = key THEN call.scenario ELSE origin[k]]
                             ELSE origin
                /\ away' = IF ShouldStore(pmConfig, call) THEN away \ {key} ELSE away
                /\ metrics' = IF call.out.timedOut
                              THEN [metrics EXCEPT !.timeoutHits = @ + 1]
                              ELSE metrics
                /\ calls' = [calls EXCEPT ![c] =
                                [@ EXCEPT !.pc = "done", !.out = ManagerOutcome(call.out)]]
           ELSE /\ calls' = [calls EXCEPT ![c] =
                                [@ EXCEPT !.pc = "done", !.out = Rethrow(call.out)]]
                /\ UNCHANGED <<cache, metrics, origin, away>>
        /\ last' = Other
        /\ UNCHANGED <<now, cacheOpts, shadow, keyVars, tm, pmConfig, currentScenario,
                       destroyed, env>>

\* scenarioEngine.setScenario(config)
SetScenario(config) ==
    /\ Quiet
    /\ currentScenario' = setScenario(currentScenario, config)
    /\ away' = away \cup {cache[i].key : i \in {j \in 1..Len(cache) :
                                  origin[cache[j].key] # currentScenario'}}
    /\ last' = Other
    /\ UNCHANGED <<now, cache, metrics, cacheOpts, shadow, keyVars, execVars, pmConfig,
                   origin, destroyed, env>>

\* the configuration the manager under test is constructed with
ManagerConfig ==
    [cache |-> [enabled |-> TRUE, maxEntries |-> 2, defaultTtlMs |-> 2,
                cleanupIntervalMs |-> 0],
     timeout |-> [fixtureTimeoutMs |-> 2, enablePassthrough |-> TRUE]]

\* the same with passthrough enabled or disabled
ManagerConfigs ==
    { [ManagerConfig EXCEPT !.timeout.enablePassthrough = p] : p \in BOOLEAN }

\* what setScenario is called with: the initial scenario, the same name with seed 0,
\* another registered name, and a name that is not registered
ScenarioConfigs ==
    { [name |-> Baseline, seed |-> 42], [name |-> Baseline, seed |-> 0],
      [name |-> HeavyTail, seed |-> 42], [name |-> <<"nope">>, seed |-> 7] }

\* the callers of executeFixtureRequest: one call can overlap another
Callers == {1, 2}

\* options.enableCache of the calls
ManagerCaching == {TRUE}

ManagerRoutes == { <<"/", "a">> }
ManagerParams == { <<>> }
ManagerTtls == { NoTtl }

\* the constructor: the cache and the TimeoutManager are built from the configuration
Init ==
    /\ CacheInit([maxEntries |-> ManagerConfig.cache.maxEntries,
                  defaultTtlMs |-> ManagerConfig.cache.defaultTtlMs,
                  cleanupIntervalMs |-> ManagerConfig.cache.cleanupIntervalMs])
    /\ NoKeysInit
    /\ \E config \in ManagerConfigs :
           /\ pmConfig = config
           /\ tm = TimeoutManager(config.timeout)
    /\ calls = [c \in Callers |-> IdleCall]
    /\ currentScenario = [name |-> Baseline, seed |-> 42]
    /\ origin = <<>>
    /\ destroyed = FALSE
    /\ env = NoEnv
    /\ away = {}

Next ==
    \/ \E c \in Callers, route \in ManagerRoutes, params \in ManagerParams,
          enableCache \in ManagerCaching, ttlMs \in ManagerTtls, latency \in Latencies :
           ExecStart(c, route, params, enableCache, ttlMs, latency)
    \/ \E c \in Callers : Settle(c)
    \/ \E c \in Callers : ExecContinue(c)
    \/ \E c \in Callers : Return(c)
    \/ \E config \in ScenarioConfigs : SetScenario(config)
    \/ ExecTick

Spec == Init /\ [][Next]_vars

-----------------------------------------------------------------------------
(* TimeoutManager driven directly: fetchWithTimeout calls on one manager *)

Budgets == {0, 2}

\* milliseconds the primary operation of a direct call takes: 0 is an operation that
\* settles at once
FetchLatencies == {0} \cup Latencies

\* fetchWithTimeout(fetchFn, fallbackFn?) begins
FetchStart(c, hasFallback, latency) ==
    /\ Quiet
    /\ SlotFree(c)
    /\ tm.totalRequests < MaxRequests
    /\ tm' = [tm EXCEPT !.totalRequests = @ + 1]
    /\ calls' = [calls EXCEPT ![c] =
                    BeginRace(IdleCall, now, tm.config.fixtureTimeoutMs, latency,
                              hasFallback)]
    /\ last' = Other
    /\ UNCHANGED <<now, cache, metrics, cacheOpts, shadow, keyVars, mgrVars>>

InitTimeout ==
    /\ CacheInit(CacheOptions)
    /\ NoKeysInit
    /\ NoManagerInit
    /\ \E config \in [fixtureTimeoutMs : Budgets, enablePassthrough : BOOLEAN] :
           tm = TimeoutManager(config)
    /\ calls = [c \in CallIds |-> IdleCall]

NextTimeout ==
    \/ \E c \in CallIds, hasFallback \in BOOLEAN, latency \in FetchLatencies :
           FetchStart(c, hasFallback, latency)
    \/ \E c \in CallIds : Settle(c)
    \/ \E c \in CallIds : Return(c)
    \/ ExecTick

SpecTimeout == InitTimeout /\ [][NextTimeout]_vars

-----------------------------------------------------------------------------
(* fetchMultipleWithTimeout: the calls of a batch begin together, Promise.allSettled
   holds their outcomes until the last has settled *)

\* { result: null, timedOut: true, source: 'passthrough' }
FailureMarker == Returned(Null, TRUE, "passthrough", FALSE)

\* a rejection is passed on as it is
BatchOutcome_Rejects(out) == out

\* results.map: a fulfilled outcome is its value, a rejected one the failure marker
BatchOutcome(out) == IF out.kind = "value" THEN out ELSE FailureMarker

\* fetchMultipleWithTimeout(requests, fallbacks): request i begins in slot i, with
\* fallbacks?.[i]
BatchStart(n, hasFallback, latency) ==
    /\ Quiet
    /\ \A c \in DOMAIN calls :
           calls[c].pc = "idle" /\ ~calls[c].primaryPending /\ ~calls[c].timerPending
    /\ tm.totalRequests + n <= MaxRequests
    /\ tm' = [tm EXCEPT !.totalRequests = @ + n]
    /\ calls' = [c \in DOMAIN calls |->
                    IF c <= n
                    THEN BeginRace([IdleCall EXCEPT !.batch = TRUE], now,
                                   tm.config.fixtureTimeoutMs, latency[c], hasFallback[c])
                    ELSE calls[c]]
    /\ last' = Other
    /\ UNCHANGED <<now, cache, metrics, cacheOpts, shadow, keyVars, mgrVars>>

\* every promise of the batch has settled: the array of outcomes is returned
BatchReturn ==
    /\ Quiet
    /\ \E c \in DOMAIN calls : calls[c].batch
    /\ \A c \in DOMAIN calls : calls[c].batch => calls[c].pc = "settled"
    /\ calls' = [c \in DOMAIN calls |->
                    IF calls[c].batch
                    THEN [calls[c] EXCEPT !.pc = "done", !.out = BatchOutcome(@)]
                    ELSE calls[c]]
    /\ last' = Other
    /\ UNCHANGED <<tm, execFrame>>

NextBatch ==
    \/ \E n \in CallIds, hasFallback \in [CallIds -> BOOLEAN],
          latency \in [CallIds -> Latencies] : BatchStart(n, hasFallback, latency)
    \/ \E c \in CallIds : Settle(c)
    \/ BatchReturn
    \/ \E c \in CallIds : Return(c)
    \/ ExecTick

SpecBatch == InitTimeout /\ [][NextBatch]_vars

-----------------------------------------------------------------------------
(* Properties of the ResponseCache *)

\* the entry stored under Map key k, when there is one
EntryOf(c, k) == c[MapIndex(c, k)]

\* the step is a get(ck) addressing ProbeKey while an entry is stored under it
ProbeLookup(ck) ==
    /\ last'.op = "get"
    /\ last'.ck = ck
    /\ generateKey(ck) = ProbeKey
    /\ MapHas(cache, ProbeKey)

\* C7: a get performed after set(key, value), while the entry is still stored and
\* its age does not exceed its TTL, returns exactly the value of that set, under
\* every spelling of the key.
C7_RoundTrip ==
    [][\A ck \in CacheKeyInputs :
           (ProbeLookup(ck) /\ now - EntryOf(cache, ProbeKey).timestamp
                                   <= EntryOf(cache, ProbeKey).ttl)
           => (shadow.isSet /\ last'.ret = shadow.data)]_vars

\* C7 witness: a value set under one spelling has been read back, at an age equal to
\* the entry's TTL, by a get that counted a hit
C7_Witness ==
    /\ last.op = "get"
    /\ generateKey(last.ck) = ProbeKey
    /\ shadow.isSet
    /\ last.ret = shadow.data
    /\ metrics.cacheHits > 0
    /\ MapHas(cache, ProbeKey)
    /\ now - EntryOf(cache, ProbeKey).timestamp = EntryOf(cache, ProbeKey).ttl
    /\ EntryOf(cache, ProbeKey).hitCount > 0

\* C10: an entry stored by set with ttl = T is returned by get at any age below T;
\* at any age above T get returns absent, counts a miss and removes the entry.
C10_TtlExpiry ==
    [][\A ck \in CacheKeyInputs :
           (ProbeLookup(ck) /\ shadow.isSet /\ shadow.ttlMs # NoTtl)
           => LET T == shadow.ttlMs[1]
                  age == now - shadow.at
              IN  /\ age < T => last'.ret = shadow.data
                  /\ age > T => /\ last'.ret = Null
                                /\ metrics'.cacheMisses = metrics.cacheMisses + 1
                                /\ ~MapHas(cache', ProbeKey)]_vars

-----------------------------------------------------------------------------
(* Properties of key generation *)

Range(f) == {f[i] : i \in DOMAIN f}

\* the lookup under keyB found the entry stored under keyA
KeyHit == last.op = "get" /\ metrics.cacheHits = 1 /\ last.ret = "v1"

\* the four components of the two keys are equal
SameComponents(a, b) ==
    /\ normalizeRoute(a.route) = normalizeRoute(b.route)
    /\ normalizeParams(a.params) = normalizeParams(b.params)
    /\ a.scenario = b.scenario
    /\ a.seed = b.seed

\* C8: two keys address the same entry if and only if canonical route, canonical
\* params, scenario name and scenario seed are all equal: a get under a key that
\* differs in a component from the key stored misses.
C8_KeyIdentity ==
    last.op = "get" => (KeyHit <=> SameComponents(keyA, keyB))

\* the two parameter strings hold the same name/value pairs, in whatever order
SamePairs(p, q) ==
    LET P == URLSearchParams(p)
        Q == URLSearchParams(q)
        Count(S, x) == Cardinality({i \in 1..Len(S) : S[i] = x})
    IN  /\ Len(P) = Len(Q)
        /\ \A x \in Range(P) \cup Range(Q) : Count(P, x) = Count(Q, x)

\* no parameter name occurs twice
DistinctNames(p) ==
    LET P == URLSearchParams(p)
    IN  \A i, j \in 1..Len(P) : P[i].name = P[j].name => i = j

CaseVariant(r1, r2) ==
    Len(r1) = Len(r2) /\ \A i \in 1..Len(r1) : Lower(r1[i]) = Lower(r2[i])

\* r2 is r1 with one slash doubled
SlashVariant(r1, r2) ==
    \E i \in 1..Len(r1) :
        r1[i] = "/" /\ r2 = SubSeq(r1, 1, i) \o <<"/">> \o SubSeq(r1, i + 1, Len(r1))

\* r2 is r1 followed by a query string
QueryVariant(r1, r2) ==
    /\ Len(r2) > Len(r1)
    /\ SubSeq(r2, 1, Len(r1)) = r1
    /\ r2[Len(r1) + 1] = "?"

\* the routes are equal or differ only in letter case, a doubled slash or an
\* appended query string
RouteRelated(r1, r2) ==
    \/ r1 = r2
    \/ CaseVariant(r1, r2)
    \/ SlashVariant(r1, r2) \/ SlashVariant(r2, r1)
    \/ QueryVariant(r1, r2) \/ QueryVariant(r2, r1)

\* C9 as stated: keys whose params hold the same pairs in another order, or whose
\* routes differ only in case, doubled slashes or an appended query string, address
\* the same entry.
C9_OrderInsensitive ==
    (/\ last.op = "get"
     /\ RouteRelated(keyA.route, keyB.route)
     /\ SamePairs(keyA.params, keyB.params)
     /\ keyA.scenario = keyB.scenario
     /\ keyA.seed = keyB.seed)
    => KeyHit

\* C9 amended: the same, for params in which no parameter name is repeated (or
\* params that are equal as written).
C9_Canonical ==
    (/\ last.op = "get"
     /\ RouteRelated(keyA.route, keyB.route)
     /\ \/ keyA.params = keyB.params
        \/ SamePairs(keyA.params, keyB.params) /\ DistinctNames(keyA.params)
     /\ keyA.scenario = keyB.scenario
     /\ keyA.seed = keyB.seed)
    => KeyHit

\* C9 witness: a value set under one spelling was returned under another route
\* spelling with the parameters in another order
C9_Witness ==
    /\ KeyHit
    /\ keyA.route # keyB.route
    /\ keyA.params # keyB.params
    /\ RouteRelated(keyA.route, keyB.route)
    /\ SamePairs(keyA.params, keyB.params)
    /\ DistinctNames(keyA.params)
    /\ keyA.scenario = keyB.scenario
    /\ keyA.seed = keyB.seed


-----------------------------------------------------------------------------
(* Properties of fetchWithTimeout *)

\* C1: the outcome is decided by what settles first.  When the primary operation
\* resolves first the call returns its result with timedOut false and source
\* 'fixture'; when the timer fires first and a fallback that was passed and is enabled
\* resolves, the call returns the fallback's result with timedOut true and source
\* 'passthrough'.
C1_RaceDecides ==
    \A c \in DOMAIN calls :
        LET call == calls[c]
        IN  /\ call.first = "resolve"
                   => /\ call.pc = "settled"
                      /\ call.out = Returned(call.raced.result, FALSE, "fixture", FALSE)
            /\ (/\ call.first = "timer"
                /\ call.hasFallback /\ call.passthroughOn
                /\ call.fell.kind = "value")
                   => /\ call.pc = "settled"
                      /\ call.out = Returned(call.fell.result, TRUE, "passthrough", FALSE)

\* C1 witness: the timer fired first, the enabled fallback resolved, and the call
\* returned the fallback's value
C1_Witness ==
    \E c \in DOMAIN calls :
        /\ calls[c].first = "timer"
        /\ calls[c].hasFallback /\ calls[c].passthroughOn
        /\ calls[c].fell = Resolved("p1")
        /\ calls[c].out.kind = "value"
        /\ calls[c].out.result = "p1"
        /\ calls[c].primaryPending

\* C2: when the timer fires before the primary operation settles and no fallback was
\* passed, or passthrough is disabled, the call throws the timeout error and no
\* fallback runs.
C2_TimeoutError ==
    \A c \in DOMAIN calls :
        LET call == calls[c]
        IN  (call.first = "timer" /\ ~(call.hasFallback /\ call.passthroughOn))
                => /\ call.pc = "settled"
                   /\ call.out = Thrown(TimeoutError(call.timeoutMs))
                   /\ call.passthroughRuns = 0

\* C2 witness: a fallback was passed, passthrough is disabled, and the call threw
\* when its timer fired
C2_Witness ==
    \E c \in DOMAIN calls :
        /\ calls[c].first = "timer"
        /\ calls[c].hasFallback /\ ~calls[c].passthroughOn
        /\ calls[c].out.kind = "error"
        /\ tm.timeoutHits > 0

\* C3: whenever the primary operation itself rejects before the timer fires, the call
\* throws that error, the fallback is not invoked and no timeout is counted.
C3_PrimaryFailurePropagates ==
    [][\A c \in DOMAIN calls :
           (calls[c].pc = "racing" /\ calls'[c].first = "reject")
           => /\ calls'[c].pc = "settled"
              /\ calls'[c].out = Thrown(calls'[c].raced.error)
              /\ calls'[c].passthroughRuns = 0
              /\ tm'.timeoutHits = tm.timeoutHits]_vars

-----------------------------------------------------------------------------
(* Properties of executeFixtureRequest *)

\* the step is the beginning of call c
Begins(c) ==
    /\ calls[c].pc = "idle"
    /\ calls'[c].pc \in {"racing", "done"}
    /\ calls'[c].mgr

\* an entry is stored under the Map key and its age does not exceed its TTL
Live(k) == MapHas(cache, k) /\ ~Expired(EntryOf(cache, k), now)

\* C4: once a fixture result has been cached, a repeated request for the same key
\* within TTL, under the same scenario and with caching enabled, returns the stored
\* result with source 'cache', fromCache true and timedOut false, runs neither
\* operation and leaves the executor's counters alone.
C4_CacheBypass ==
    [][\A c \in DOMAIN calls :
           LET k == generateKey(calls'[c].cacheKey)
           IN  (/\ Begins(c)
                /\ CacheInUse(pmConfig, calls'[c].enableCache)
                /\ Live(k)
                /\ origin[k] = currentScenario)
               => /\ calls'[c].pc = "done"
                  /\ calls'[c].out = Returned(EntryOf(cache, k).data, FALSE, "cache", TRUE)
                  /\ calls'[c].fixtureRuns = 0
                  /\ calls'[c].passthroughRuns = 0
                  /\ tm' = tm]_vars

\* C5: a call whose outcome has source 'passthrough' leaves the cache as it was, and
\* a request that finds no entry under its key runs the fixture operation.
C5_NoDegradedCaching ==
    [][\A c \in DOMAIN calls :
           /\ (/\ calls[c].pc = "settled" /\ calls[c].mgr
               /\ calls'[c].pc = "done"
               /\ calls'[c].out.source = "passthrough")
                  => cache' = cache
           /\ (Begins(c) /\ ~MapHas(cache, generateKey(calls'[c].cacheKey)))
                  => /\ calls'[c].pc = "racing"
                     /\ calls'[c].fixtureRuns = 1]_vars

\* C5 witness: a call returned the passthrough result after its timer fired, and no
\* entry is stored under its key
C5_Witness ==
    \E c \in DOMAIN calls :
        /\ calls[c].mgr /\ calls[c].pc = "done"
        /\ calls[c].first = "timer"
        /\ calls[c].out = Returned("p1", TRUE, "passthrough", FALSE)
        /\ ~MapHas(cache, generateKey(calls[c].cacheKey))
        /\ metrics.timeoutHits > 0

\* C6: a call made while the active scenario differs, in name or in seed, from the
\* one under which the entry of its route and params was cached is not served that
\* entry: it misses and runs the fixture operation.
C6_ScenarioIsolation ==
    [][\A c \in DOMAIN calls :
           LET k == generateKey(calls'[c].cacheKey)
           IN  (Begins(c) /\ MapHas(cache, k) /\ origin[k] # currentScenario)
               => /\ calls'[c].pc = "racing"
                  /\ calls'[c].fixtureRuns = 1]_vars


-----------------------------------------------------------------------------
(* Properties of eviction *)

\* the Map keys stored
Keys(c) == {c[i].key : i \in 1..Len(c)}

\* the step stores an entry under a Map key that was not stored
Inserts == Keys(cache') \ Keys(cache) # {}

\* C11: with maxEntries = N, a set that inserts a new key into a cache holding N
\* entries evicts exactly one entry, one of least lastAccess; the key that the get
\* just before the insert returned is not the one evicted.
C11_LruEviction ==
    [][(Inserts /\ Len(cache) = cacheOpts.maxEntries)
       => /\ \E k \in Keys(cache) :
                 /\ Keys(cache) \ Keys(cache') = {k}
                 /\ \A j \in Keys(cache) :
                        EntryOf(cache, k).lastAccess <= EntryOf(cache, j).lastAccess
          /\ (last.op = "get" /\ last.ret # Null)
                 => generateKey(last.ck) \in Keys(cache')]_vars

\* C12: the number of stored entries never exceeds maxEntries.
C12_CapacityBound == Len(cache) <= cacheOpts.maxEntries


-----------------------------------------------------------------------------
(* Properties of the fallback path *)

\* C13: when the timer fires first and the fallback that was invoked rejects, the
\* call throws exactly the fallback's error, and the timeout was counted in
\* timeoutHits when the timer fired.
C13_FallbackFailure ==
    [][\A c \in DOMAIN calls :
           /\ (calls[c].pc = "racing" /\ calls'[c].first = "timer")
                  => tm'.timeoutHits = tm.timeoutHits + 1
           /\ (/\ calls[c].pc = "fallback" /\ calls[c].first = "timer"
               /\ calls'[c].fell.kind = "error")
                  => /\ calls'[c].pc = "settled"
                     /\ calls'[c].out = Thrown(calls'[c].fell.error)
                     /\ calls'[c].out.error # TimeoutError(calls[c].timeoutMs)
                     /\ tm'.timeoutHits = tm.timeoutHits]_vars

\* C13 witness: the timer fired, the fallback rejected, the call threw the
\* fallback's error and the timeout is counted
C13_Witness ==
    \E c \in DOMAIN calls :
        /\ calls[c].first = "timer"
        /\ calls[c].fell \in {Rejected(e) : e \in FallbackErrors}
        /\ calls[c].out = Thrown(calls[c].fell.error)
        /\ tm.timeoutHits > 0


-----------------------------------------------------------------------------
(* Properties of failing and of counted calls *)

\* what is stored, key by key, in the entries whose age does not exceed their TTL
LiveEntries(c, t) ==
    {[key |-> c[i].key, data |-> c[i].data, timestamp |-> c[i].timestamp,
      ttl |-> c[i].ttl] : i \in {j \in 1..Len(c) : ~Expired(c[j], t)}}

\* C14: when fetchWithTimeout throws inside executeFixtureRequest, the call throws
\* that same error, returns no result and leaves the cache entries as they were:
\* the failure writes nothing, and the miss before it removed at most an entry that
\* had expired.
C14_FailurePropagates ==
    [][\A c \in DOMAIN calls :
           /\ (/\ calls[c].pc = "settled" /\ calls[c].mgr
               /\ calls[c].out.kind = "error"
               /\ calls'[c].pc = "done")
                  => /\ calls'[c].out = calls[c].out
                     /\ calls'[c].out.result = Null
                     /\ cache' = cache
           /\ (Begins(c) /\ calls'[c].pc = "racing")
                  => LiveEntries(cache', now) = LiveEntries(cache, now)]_vars

\* C14 witness: with passthrough disabled the timer fired, the call threw the
\* timeout error, and the entry another call had cached is still stored
C14_Witness ==
    \E c \in DOMAIN calls :
        /\ calls[c].mgr /\ calls[c].pc = "done"
        /\ calls[c].first = "timer"
        /\ ~pmConfig.timeout.enablePassthrough
        /\ calls[c].out = Thrown(TimeoutError(calls[c].timeoutMs))
        /\ Len(cache) > 0


\* C15: a call whose timer fires before its fixture operation settles adds exactly
\* one to timeoutHits, with or without a fallback, and nothing the call does after
\* the race adds to it again; a request served from the cache adds exactly one to
\* cacheHits and leaves cacheMisses and timeoutHits alone.
C15_MetricsAccounting ==
    [][\A c \in DOMAIN calls :
           /\ (calls[c].pc = "racing" /\ calls'[c].first = "timer")
                  => tm'.timeoutHits = tm.timeoutHits + 1
           /\ (calls[c].pc \in {"fallback", "settled", "done"} /\ calls'[c] # calls[c])
                  => tm'.timeoutHits = tm.timeoutHits
           /\ (Begins(c) /\ calls'[c].out.source = "cache")
                  => /\ metrics'.cacheHits = metrics.cacheHits + 1
                     /\ metrics'.cacheMisses = metrics.cacheMisses
                     /\ metrics'.timeoutHits = metrics.timeoutHits
                     /\ tm'.timeoutHits = tm.timeoutHits]_vars

\* C15 witness: the second call whose timer fired has finished and both timeouts
\* are counted
C15_Witness ==
    \E c \in DOMAIN calls :
        /\ calls[c].mgr /\ calls[c].pc = "done"
        /\ calls[c].first = "timer"
        /\ tm.timeoutHits = 2
        /\ tm.totalRequests = 2


\* C16: the passthroughCount getMetrics reports counts the calls in which the
\* passthrough operation was invoked: once such a call has returned or thrown, the
\* count is at least one.
C16_PassthroughCounted ==
    \A c \in DOMAIN calls :
        (calls[c].mgr /\ calls[c].pc = "done" /\ calls[c].passthroughRuns > 0)
            => getMetrics(metrics, tm).passthroughCount >= calls[c].passthroughRuns


-----------------------------------------------------------------------------
(* Properties of fetchMultipleWithTimeout *)

\* the step returns the outcomes of a batch
BatchReturns == \E c \in DOMAIN calls : calls[c].batch /\ calls[c].pc = "settled"
                                        /\ calls'[c].pc = "done"

\* C17: the batch returns one outcome for each of its pairs, at the index of the
\* pair; a pair that returned a result has exactly the outcome its own race and
\* fallback decided, whatever happened to the other pairs, and a pair that ended in
\* a rejection is reported as { result: null, timedOut: true, source: 'passthrough' }.
C17_SettleAll ==
    [][BatchReturns
       => \A c \in DOMAIN calls :
              calls[c].batch
              => /\ calls'[c].pc = "done"
                 /\ calls'[c].out.kind = "value"
                 /\ calls[c].first = "resolve"
                        => calls'[c].out = FixtureOutcome(calls[c].raced.result)
                 /\ (calls[c].first # "resolve" /\ calls[c].fell.kind = "value")
                        => calls'[c].out = PassthroughOutcome(calls[c].fell.result)
                 /\ (calls[c].first # "resolve" /\ calls[c].fell.kind # "value")
                        => calls'[c].out = FailureMarker]_vars

\* C17 witness: a batch of two has returned; the first pair failed on its timeout
\* without a fallback and is reported by the failure marker, the second returned
\* its fixture result
C17_Witness ==
    /\ calls[1].batch /\ calls[1].pc = "done"
    /\ calls[2].batch /\ calls[2].pc = "done"
    /\ calls[1].first = "timer" /\ ~calls[1].hasFallback
    /\ calls[1].out = FailureMarker
    /\ calls[2].first = "resolve"
    /\ calls[2].out = FixtureOutcome("v1")


-----------------------------------------------------------------------------
(* Properties of the budget *)

\* C18: with a budget of 0 every call takes the timeout path: no call returns
\* source 'fixture', however quickly its primary operation completes.
C18_ZeroBudget ==
    tm.config.fixtureTimeoutMs = 0
        => \A c \in DOMAIN calls : calls[c].out.source # "fixture"


-----------------------------------------------------------------------------
(* Properties of overlapping calls *)

\* call d of executeFixtureRequest has begun and not yet come back from
\* fetchWithTimeout
InFlight(d) == calls[d].mgr /\ calls[d].pc \in {"racing", "fallback", "settled"}

\* C19: a call that begins while another call for the same key is in flight and
\* nothing is stored under the key misses and runs its own fixture operation; each
\* call that comes back with a fixture result writes it, so that the entry holds the
\* value of the call that wrote last.
C19_NoDeduplication ==
    [][\A c \in DOMAIN calls :
           LET k == generateKey(calls'[c].cacheKey)
           IN  /\ (/\ Begins(c)
                   /\ ~MapHas(cache, k)
                   /\ \E d \in DOMAIN calls :
                          d # c /\ InFlight(d) /\ generateKey(calls[d].cacheKey) = k)
                      => /\ calls'[c].pc = "racing"
                         /\ calls'[c].fixtureRuns = 1
                         /\ metrics'.cacheMisses = metrics.cacheMisses + 1
               /\ (/\ InFlight(c) /\ calls'[c].pc = "done"
                   /\ calls'[c].out.source = "fixture")
                      => /\ MapHas(cache', k)
                         /\ EntryOf(cache', k).data = calls'[c].out.result
                         /\ EntryOf(cache', k).timestamp = now]_vars

\* C19 witness: two calls for the same key both missed; one has written its value
\* and returned, the other holds its own fixture result and is about to write
C19_Witness ==
    \E c, d \in DOMAIN calls :
        /\ c # d
        /\ calls[c].mgr /\ calls[c].pc = "done" /\ calls[c].out.source = "fixture"
        /\ calls[d].mgr /\ calls[d].pc = "settled" /\ calls[d].out.source = "fixture"
        /\ calls[c].cacheKey = calls[d].cacheKey
        /\ calls[c].out.result # calls[d].out.result
        /\ metrics.cacheMisses = 2 /\ metrics.cacheHits = 0
        /\ EntryOf(cache, generateKey(calls[c].cacheKey)).data = calls[c].out.result


\* C20: when the timer wins, the primary operation keeps running, and its later
\* completion changes nothing: not the outcome or the position of its call, not
\* another call, not a cache entry and not a counter.
C20_RaceNotCancellation ==
    [][\A c \in DOMAIN calls :
           /\ (calls[c].pc = "racing" /\ calls'[c].first = "timer")
                  => calls'[c].primaryPending
           /\ (/\ calls[c].pc # "racing"
               /\ calls[c].primaryPending /\ ~calls'[c].primaryPending)
                  => /\ calls'[c].out = calls[c].out
                     /\ calls'[c].pc = calls[c].pc
                     /\ \A d \in DOMAIN calls : d # c => calls'[d] = calls[d]
                     /\ cache' = cache
                     /\ metrics' = metrics
                     /\ tm' = tm]_vars

\* C20 witness: the timer won, the primary operation completed while the fallback
\* was awaited, and the call returned the passthrough result
C20_Witness ==
    \E c \in DOMAIN calls :
        /\ calls[c].mgr /\ calls[c].pc = "done"
        /\ calls[c].first = "timer"
        /\ ~calls[c].primaryPending
        /\ calls[c].out = Returned("p1", TRUE, "passthrough", FALSE)

-----------------------------------------------------------------------------
(* PerformanceManager administered at run time: reset, updateConfig, destroy, and
   the cache's periodic sweep *)

\* { ...base, ...over }: the fields of over replace those of base, whole
Spread(base, over) ==
    [k \in DOMAIN base \cup DOMAIN over |->
        IF k \in DOMAIN over THEN over[k] ELSE base[k]]

\* TimeoutManager.reset() that leaves totalRequests standing
reset_KeepsRequests(t) == [t EXCEPT !.timeoutHits = 0]

\* TimeoutManager.reset(): both counters to zero
reset(t) == [t EXCEPT !.timeoutHits = 0, !.totalRequests = 0]

\* TimeoutManager.updateConfig that drops the new values
updateConfig_Ignored(t, config) == t

\* TimeoutManager.updateConfig that builds a new manager around the new values
updateConfig_Rebuilds(t, config) == TimeoutManager(Spread(t.config, config))

\* TimeoutManager.updateConfig(config): this.config = { ...this.config, ...config }
updateConfig(t, config) == [t EXCEPT !.config = Spread(@, config)]

\* ResponseCache.destroy() that leaves the interval running
destroy_KeepsTimer(c, opts) == [cache |-> <<>>, opts |-> opts]

\* ResponseCache.destroy(): the interval is cleared and the Map emptied
destroy(c, opts) == [cache |-> <<>>, opts |-> [opts EXCEPT !.cleanupInterval = FALSE]]

\* what an administrative step records of itself: its name and its argument
Admin(op, config) == [op |-> op, ck |-> NoKey, ret |-> Null, call |-> 0,
                      config |-> config]

\* the argument of the steps that take none
NoConfig == [none |-> TRUE]

\* PerformanceManager.reset()
Reset ==
    /\ Quiet
    /\ cache' = <<>>
    /\ metrics' = ZeroMetrics
    /\ tm' = reset(tm)
    /\ last' = Admin("reset", NoConfig)
    /\ UNCHANGED <<now, cacheOpts, shadow, keyVars, calls, mgrVars>>

\* PerformanceManager.updateConfig(config): only a timeout part reaches the
\* TimeoutManager, and nothing reaches the ResponseCache
UpdateConfig(config) ==
    /\ Quiet
    /\ pmConfig' = Spread(pmConfig, config)
    /\ tm' = IF "timeout" \in DOMAIN config THEN updateConfig(tm, config.timeout)
             ELSE tm
    /\ last' = Admin("updateConfig", config)
    /\ UNCHANGED <<now, cache, metrics, cacheOpts, shadow, keyVars, calls,
                   currentScenario, origin, destroyed, env, away>>

\* PerformanceManager.destroy()
Destroy ==
    /\ Quiet
    /\ LET d == destroy(cache, cacheOpts)
       IN  /\ cache' = d.cache
           /\ cacheOpts' = d.opts
    /\ destroyed' = TRUE
    /\ last' = Admin("destroy", NoConfig)
    /\ UNCHANGED <<now, metrics, shadow, keyVars, execVars, pmConfig, currentScenario,
                   origin, env, away>>

\* the setInterval callback of startCleanup, while the interval is set; on which
\* ticks of the clock it falls is left open
Sweep ==
    /\ Quiet
    /\ cacheOpts.cleanupInterval
    /\ cache' = cleanup(cache, now)
    /\ last' = Admin("sweep", NoConfig)
    /\ UNCHANGED <<now, metrics, cacheOpts, shadow, nonCacheVars>>

\* PerformanceManager.cleanup()
ManagerCleanup == Quiet /\ CacheCleanup

\* the configuration of the manager under administration: the sweep is switched on
AdminConfig == [ManagerConfig EXCEPT !.cache.cleanupIntervalMs = 1]

\* what updateConfig is called with: a timeout part or a cache part
ConfigUpdates ==
    { [timeout |-> [fixtureTimeoutMs |-> 1, enablePassthrough |-> FALSE]],
      [cache |-> [enabled |-> TRUE, maxEntries |-> 1, defaultTtlMs |-> 1,
                  cleanupIntervalMs |-> 1]] }

AdminCallers == {1}

AdminRoutes == { <<"/", "a">>, <<"/", "b">> }

InitAdmin ==
    /\ CacheInit([maxEntries |-> AdminConfig.cache.maxEntries,
                  defaultTtlMs |-> AdminConfig.cache.defaultTtlMs,
                  cleanupIntervalMs |-> AdminConfig.cache.cleanupIntervalMs])
    /\ NoKeysInit
    /\ pmConfig = AdminConfig
    /\ tm = TimeoutManager(AdminConfig.timeout)
    /\ calls = [c \in AdminCallers |-> IdleCall]
    /\ currentScenario = [name |-> Baseline, seed |-> 42]
    /\ origin = <<>>
    /\ destroyed = FALSE
    /\ env = NoEnv
    /\ away = {}

NextAdmin ==
    \/ \E c \in AdminCallers, route \in AdminRoutes, latency \in Latencies :
           ExecStart(c, route, <<>>, TRUE, NoTtl, latency)
    \/ \E c \in AdminCallers : Settle(c)
    \/ \E c \in AdminCallers : ExecContinue(c)
    \/ \E c \in AdminCallers : Return(c)
    \/ \E config \in ConfigUpdates : UpdateConfig(config)
    \/ Reset
    \/ Destroy
    \/ Sweep
    \/ ManagerCleanup
    \/ \E ck \in LruKeyInputs : CacheHas(ck)
    \/ ExecTick

SpecAdmin == InitAdmin /\ [][NextAdmin]_vars

-----------------------------------------------------------------------------
(* PerformanceManager reconfigured while it serves calls: the budget and the
   passthrough switch are changed back and forth *)

\* the timeout parts updateConfig is called with
TimeoutUpdates ==
    { [timeout |-> [fixtureTimeoutMs |-> 1, enablePassthrough |-> FALSE]],
      [timeout |-> [fixtureTimeoutMs |-> 2, enablePassthrough |-> TRUE]] }

NextReconfig ==
    \/ \E c \in AdminCallers, route \in AdminRoutes, latency \in Latencies :
           ExecStart(c, route, <<>>, TRUE, NoTtl, latency)
    \/ \E c \in AdminCallers : Settle(c)
    \/ \E c \in AdminCallers : ExecContinue(c)
    \/ \E c \in AdminCallers : Return(c)
    \/ \E config \in TimeoutUpdates : UpdateConfig(config)
    \/ ExecTick

SpecReconfig == InitAdmin /\ [][NextReconfig]_vars

-----------------------------------------------------------------------------
(* fetchWithTimeout under a fair event loop, with primaries that may never settle *)

\* fetchWithTimeout begun early enough for its budget and its fallback to end
\* within the modelled time; when hangs, fetchFn's promise never settles
FetchWithin(c, hasFallback, hangs) ==
    /\ Quiet
    /\ SlotFree(c)
    /\ tm.totalRequests < MaxRequests
    /\ now + tm.config.fixtureTimeoutMs + 1 <= MaxTime
    /\ tm' = [tm EXCEPT !.totalRequests = @ + 1]
    /\ calls' = [calls EXCEPT ![c] =
                    LET race == BeginRace(IdleCall, now, tm.config.fixtureTimeoutMs, 1,
                                          hasFallback)
                    IN  IF hangs
                        THEN [race EXCEPT !.primaryPending = FALSE, !.primaryDue = 0]
                        ELSE race]
    /\ last' = Other
    /\ UNCHANGED <<now, cache, metrics, cacheOpts, shadow, keyVars, mgrVars>>

NextLive ==
    \/ \E c \in CallIds, hasFallback \in BOOLEAN, hangs \in BOOLEAN :
           FetchWithin(c, hasFallback, hangs)
    \/ \E c \in CallIds : Settle(c)
    \/ \E c \in CallIds : Return(c)
    \/ ExecTick

\* the event loop runs every callback that is due, time passes, and a fallback
\* that was called settles
SpecLive ==
    /\ InitTimeout
    /\ [][NextLive]_vars
    /\ WF_vars(ExecTick)
    /\ \A c \in CallIds : WF_vars(Settle(c)) /\ WF_vars(Return(c))

-----------------------------------------------------------------------------
(* The periodic sweep under a fair event loop: a manager that serves calls,
   whose interval callback runs whenever it is set, and that may be destroyed *)

\* the cleanupIntervalMs the manager is constructed with: 0 starts no interval
SweepIntervals == {0, 1}

\* options.ttlMs of the calls: the default of the cache, or one millisecond
SweepTtls == { NoTtl, <<1>> }

InitSweep ==
    /\ \E intervalMs \in SweepIntervals :
           LET config == [ManagerConfig EXCEPT !.cache.cleanupIntervalMs = intervalMs]
           IN  /\ CacheInit([maxEntries |-> config.cache.maxEntries,
                             defaultTtlMs |-> config.cache.defaultTtlMs,
                             cleanupIntervalMs |-> config.cache.cleanupIntervalMs])
               /\ pmConfig = config
               /\ tm = TimeoutManager(config.timeout)
    /\ NoKeysInit
    /\ calls = [c \in AdminCallers |-> IdleCall]
    /\ currentScenario = [name |-> Baseline, seed |-> 42]
    /\ origin = <<>>
    /\ destroyed = FALSE
    /\ env = NoEnv
    /\ away = {}

NextSweep ==
    \/ \E c \in AdminCallers, route \in AdminRoutes, ttlMs \in SweepTtls,
          latency \in Latencies :
           ExecStart(c, route, <<>>, TRUE, ttlMs, latency)
    \/ \E c \in AdminCallers : Settle(c)
    \/ \E c \in AdminCallers : ExecContinue(c)
    \/ \E c \in AdminCallers : Return(c)
    \/ Sweep
    \/ Destroy
    \/ ExecTick

\* the interval callback runs again and again while the interval is set, and a
\* call that has finished is handed back to its caller
SpecSweep ==
    /\ InitSweep
    /\ [][NextSweep]_vars
    /\ WF_vars(Sweep)
    /\ \A c \in AdminCallers : WF_vars(Return(c))

-----------------------------------------------------------------------------
(* Caching switched off and on: calls that pass enableCache false or leave it
   out, on a manager whose cache.enabled is changed by updateConfig *)

\* the cache parts updateConfig is called with
CachingUpdates ==
    { [cache |-> [ManagerConfig.cache EXCEPT !.enabled = enabled]] :
          enabled \in BOOLEAN }

\* options.enableCache of the calls: false, or left out
CachingOptions == BOOLEAN

InitCaching ==
    /\ CacheInit([maxEntries |-> ManagerConfig.cache.maxEntries,
                  defaultTtlMs |-> ManagerConfig.cache.defaultTtlMs,
                  cleanupIntervalMs |-> ManagerConfig.cache.cleanupIntervalMs])
    /\ NoKeysInit
    /\ pmConfig = ManagerConfig
    /\ tm = TimeoutManager(ManagerConfig.timeout)
    /\ calls = [c \in Callers |-> IdleCall]
    /\ currentScenario = [name |-> Baseline, seed |-> 42]
    /\ origin = <<>>
    /\ destroyed = FALSE
    /\ env = NoEnv
    /\ away = {}

NextCaching ==
    \/ \E c \in Callers, enableCache \in CachingOptions, latency \in Latencies :
           ExecStart(c, <<"/", "a">>, <<>>, enableCache, NoTtl, latency)
    \/ \E c \in Callers : Settle(c)
    \/ \E c \in Callers : ExecContinue(c)
    \/ \E c \in Callers : Return(c)
    \/ \E config \in CachingUpdates : UpdateConfig(config)
    \/ ExecTick

SpecCaching == InitCaching /\ [][NextCaching]_vars

-----------------------------------------------------------------------------
(* The constructor's reading of process.env *)

\* an environment variable that is not set
Unset == <<"undefined">>

\* Number.NaN; a number n read from text is held as <<n>>
NaN == <<>>

Digits == <<"0", "1", "2", "3", "4", "5", "6", "7", "8", "9">>

\* parseInt(text, 10): leading blanks are skipped, a sign is taken, and the longest
\* run of digits that follows is the number; NaN when no digit follows
parseInt(text) ==
    LET IsDigit(ch) == \E d \in 1..10 : Digits[d] = ch
        DigitValue(ch) == (CHOOSE d \in 1..10 : Digits[d] = ch) - 1
        NotBlank(ch) == ch # " "
        NotDigit(ch) == ~IsDigit(ch)
        First(t, P(_)) == Min({i \in 1..Len(t) : P(t[i])} \cup {Len(t) + 1})
        trimmed == SubSeq(text, First(text, NotBlank), Len(text))
        signed == trimmed # <<>> /\ trimmed[1] \in {"-", "+"}
        rest == IF signed THEN Tail(trimmed) ELSE trimmed
        digits == SubSeq(rest, 1, First(rest, NotDigit) - 1)
        RECURSIVE Value(_)
        Value(ds) ==
            IF ds = <<>> THEN 0
            ELSE 10 * Value(SubSeq(ds, 1, Len(ds) - 1)) + DigitValue(ds[Len(ds)])
    IN  IF digits = <<>> THEN NaN
        ELSE <<IF trimmed[1] = "-" THEN 0 - Value(digits) ELSE Value(digits)>>

\* value || fallback on an environment variable: unset and empty give the fallback
OrDefault(value, fallback) ==
    IF value = Unset \/ value = <<>> THEN fallback ELSE value

\* the TimeoutManager constructor's config: the defaults read from process.env e,
\* with the fields of the config passed to it spread over them
TimeoutBudget(e, config) ==
    Spread([fixtureTimeoutMs |-> parseInt(OrDefault(e.FIXTURE_TIMEOUT_MS, <<"3", "5">>)),
            enablePassthrough |-> e.FIXTURE_PASSTHROUGH # <<"f", "a", "l", "s", "e">>],
           config)

\* new TimeoutManager(env.given)
Construct ==
    /\ ~env.constructed
    /\ env' = [env EXCEPT !.constructed = TRUE, !.config = TimeoutBudget(env, env.given)]
    /\ last' = Other
    /\ UNCHANGED <<now, cache, metrics, cacheOpts, shadow, keyVars, execVars, pmConfig,
                   currentScenario, origin, destroyed, away>>

\* FIXTURE_TIMEOUT_MS unset, empty, '35', '5', 'abc', '12x', '0', '-5', ' 7', '3.9'
\* and 'x1'; FIXTURE_PASSTHROUGH unset, 'false' and '1'; the constructor called
\* with no config, with a budget of 2 or with passthrough off
InitEnv ==
    /\ CacheInit(CacheOptions)
    /\ NoKeysInit
    /\ NoCallsInit
    /\ pmConfig = [cache |-> [enabled |-> FALSE, maxEntries |-> 0, defaultTtlMs |-> 0,
                              cleanupIntervalMs |-> 0],
                   timeout |-> NoTimeoutConfig]
    /\ currentScenario = NoScenario
    /\ origin = <<>>
    /\ destroyed = FALSE
    /\ away = {}
    /\ \E text \in { Unset, <<>>, <<"3", "5">>, <<"5">>, <<"a", "b", "c">>,
                     <<"1", "2", "x">>, <<"0">>, <<"-", "5">>, <<" ", "7">>,
                     <<"3", ".", "9">>, <<"x", "1">> },
          switch \in { Unset, <<"f", "a", "l", "s", "e">>, <<"1">> },
          given \in 1..3 :
           env = [constructed |-> FALSE,
                  FIXTURE_TIMEOUT_MS |-> text,
                  FIXTURE_PASSTHROUGH |-> switch,
                  given |-> CASE given = 1 -> <<>>
                              [] given = 2 -> [fixtureTimeoutMs |-> <<2>>]
                              [] given = 3 -> [enablePassthrough |-> FALSE],
                  config |-> [fixtureTimeoutMs |-> NaN, enablePassthrough |-> FALSE]]

SpecEnv == InitEnv /\ [][Construct]_vars

-----------------------------------------------------------------------------
(* C27: a lookup of a key with no stored entry *)

\* C27: get on a key that has no entry in the Map returns null, adds exactly
\* one to cacheMisses, leaves cacheHits alone and leaves the Map, every entry
\* with its data, timestamp, ttl, hitCount and lastAccess, as it was.
C27_FailedLookup ==
    [][(last'.op = "get" /\ ~MapHas(cache, generateKey(last'.ck)))
         => /\ last'.ret = Null
            /\ metrics'.cacheMisses = metrics.cacheMisses + 1
            /\ metrics'.cacheHits = metrics.cacheHits
            /\ cache' = cache]_vars

\* a lookup of an absent key has just missed while another, live entry is stored
C27_Witness ==
    /\ last.op = "get"
    /\ last.ret = Null
    /\ ~MapHas(cache, generateKey(last.ck))
    /\ metrics.cacheMisses = 1
    /\ metrics.cacheHits = 0
    /\ Len(cache) = 1
    /\ ~Expired(cache[1], now)
    /\ shadow.isSet

-----------------------------------------------------------------------------
(* C30: the sweep *)

\* C30: cleanup() keeps, unchanged and in order, exactly the entries whose age
\* does not exceed their ttl at the time of the sweep, keeps none whose age
\* exceeds it, and leaves the hit and miss counters as they were.
C30_CleanupExact ==
    [][last'.op = "cleanup"
         => /\ \A i \in 1..Len(cache) :
                  now - cache[i].timestamp <= cache[i].ttl
                      => /\ MapHas(cache', cache[i].key)
                         /\ EntryOf(cache', cache[i].key) = cache[i]
            /\ \A j \in 1..Len(cache') :
                  /\ now - cache'[j].timestamp <= cache'[j].ttl
                  /\ MapHas(cache, cache'[j].key)
            /\ metrics' = metrics]_vars

\* a sweep has just removed the expired probe entry and kept a live one, after a hit
C30_Witness ==
    /\ last.op = "cleanup"
    /\ shadow.isSet
    /\ now - shadow.at > (IF shadow.ttlMs = NoTtl \/ shadow.ttlMs[1] = 0
                          THEN cacheOpts.defaultTtlMs ELSE shadow.ttlMs[1])
    /\ ~MapHas(cache, ProbeKey)
    /\ Len(cache) = 1
    /\ metrics.cacheHits = 1

-----------------------------------------------------------------------------
(* C28: a set under a key that is already stored *)

\* the step rewrote the entry under key k, which was stored before it: only set
\* leaves an entry that differs from the old one with hitCount 0, written now
Replaces(k) ==
    /\ MapHas(cache, k)
    /\ MapHas(cache', k)
    /\ EntryOf(cache', k) # EntryOf(cache, k)
    /\ EntryOf(cache', k).hitCount = 0
    /\ EntryOf(cache', k).timestamp = now

\* C28: a set that replaces the value under a key already present removes no
\* other entry: the keys stored, and so the number of entries, are unchanged.
C28_ReplaceKeepsOthers ==
    [][\A k \in Keys(cache) :
          Replaces(k) => /\ Keys(cache') = Keys(cache)
                         /\ Len(cache') = Len(cache)]_vars

-----------------------------------------------------------------------------
(* C21: reset() *)

\* C21: reset() leaves the cache empty and the hit, miss, timeout and request
\* counters at zero, in the cache's metrics, in the TimeoutManager and in what
\* getMetrics reports, and leaves the configuration as it was: the manager's
\* config, the TimeoutManager's budget and passthrough switch, and the
\* ResponseCache's size, default TTL and interval.
C21_ResetFrame ==
    [][last'.op = "reset"
         => /\ cache' = <<>>
            /\ metrics' = ZeroMetrics
            /\ tm'.timeoutHits = 0
            /\ tm'.totalRequests = 0
            /\ LET m == getMetrics(metrics', tm')
               IN  /\ m.cacheHits = 0
                   /\ m.cacheMisses = 0
                   /\ m.timeoutHits = 0
                   /\ m.totalRequests = 0
            /\ pmConfig' = pmConfig
            /\ tm'.config = tm.config
            /\ cacheOpts' = cacheOpts]_vars

\* reset() has just run after an entry had been written, while a later call that
\* missed the cache and was counted as a request is still racing
C21_Witness ==
    /\ last.op = "reset"
    /\ DOMAIN origin # {}
    /\ cache = <<>>
    /\ \E c \in DOMAIN calls : calls[c].mgr /\ calls[c].pc = "racing"
    /\ tm.totalRequests = 0
    /\ metrics = ZeroMetrics

-----------------------------------------------------------------------------
(* C22: updateConfig of the budget and of the passthrough switch *)

\* C22: updateConfig with a timeout part makes getConfig report that part, and the
\* calls that follow obey what getConfig reports: a call that begins to race sets
\* its timer to the budget configured at that moment, and when its budget expires
\* the fallback is attempted exactly when passthrough is enabled at that moment.
C22_Reconfigured ==
    [][/\ (last'.op = "updateConfig" /\ "timeout" \in DOMAIN last'.config)
           => /\ pmConfig'.timeout = last'.config.timeout
              /\ pmConfig'.cache = pmConfig.cache
       /\ \A c \in DOMAIN calls :
           /\ (Begins(c) /\ calls'[c].pc = "racing")
                  => /\ calls'[c].timeoutMs = pmConfig.timeout.fixtureTimeoutMs
                     /\ calls'[c].timerDue = now + pmConfig.timeout.fixtureTimeoutMs
           /\ (calls[c].pc = "racing" /\ calls'[c].first = "timer")
                  => (calls'[c].pc = "fallback" <=> pmConfig.timeout.enablePassthrough)
           /\ (calls[c].pc = "racing" /\ calls'[c].pc = "fallback")
                  => pmConfig.timeout.enablePassthrough]_vars

\* a call begun after the budget was lowered from 2 to 1 and passthrough switched
\* off ran out of its budget of 1 and failed without a fallback attempt
C22_Witness ==
    /\ pmConfig.timeout = [fixtureTimeoutMs |-> 1, enablePassthrough |-> FALSE]
    /\ \E c \in DOMAIN calls :
           /\ calls[c].mgr
           /\ calls[c].pc = "settled"
           /\ calls[c].timeoutMs = 1
           /\ calls[c].first = "timer"
           /\ ~calls[c].passthroughOn
           /\ calls[c].passthroughRuns = 0
           /\ calls[c].out = Thrown(TimeoutError(1))

-----------------------------------------------------------------------------
(* C23: updateConfig of the cache size and default TTL *)

\* the step is the continuation of call c that writes its result to the cache
Stores(c) ==
    /\ calls[c].mgr
    /\ calls[c].pc = "settled"
    /\ calls'[c].pc = "done"
    /\ calls[c].out.kind = "value"
    /\ ShouldStore(pmConfig, calls[c])

\* C23: the cache writes obey the configuration getConfig reports, updateConfig
\* included: an entry stored without a call-specific TTL gets the configured
\* default TTL, and a write of a new key into a cache that holds at least the
\* configured maximum of entries, one of them accessed before now, evicts one.
C23_CacheReconfigured ==
    [][\A c \in DOMAIN calls :
          Stores(c) =>
             LET key == generateKey(calls[c].cacheKey)
             IN  /\ MapHas(cache', key)
                 /\ calls[c].ttlMs = NoTtl
                       => EntryOf(cache', key).ttl = pmConfig.cache.defaultTtlMs
                 /\ (/\ ~MapHas(cache, key)
                     /\ Len(cache) >= pmConfig.cache.maxEntries
                     /\ \E i \in 1..Len(cache) : cache[i].lastAccess < now)
                       => Keys(cache) \ Keys(cache') # {}]_vars

-----------------------------------------------------------------------------
(* C24: destroy() *)

\* C24: once destroy() has been called, no step is a periodic sweep of the cache:
\* the interval callback never runs again on that instance.
C24_NoSweepAfterDestroy ==
    [][destroyed => last'.op # "sweep"]_vars

\* destroy() was called on a manager whose interval was running; afterwards the
\* clock ran to its end and the cache, emptied by destroy, was written again
C24_Witness ==
    /\ destroyed
    /\ ~cacheOpts.cleanupInterval
    /\ now = MaxTime
    /\ Len(cache) >= 1
    /\ \A i \in 1..Len(cache) : cache[i].timestamp >= 1

-----------------------------------------------------------------------------
(* C25: the counters only grow *)

\* C25: in every step that is not a reset() or a destroy(), that is in every step
\* of executeFixtureRequest (its lookups, timeouts and cache writes), in every
\* updateConfig, sweep and cleanup, cacheHits, cacheMisses and timeoutHits, the
\* cache's and the TimeoutManager's, are left equal or larger.
C25_CountersMonotone ==
    [][last'.op \notin {"reset", "destroy"}
         => /\ metrics'.cacheHits >= metrics.cacheHits
            /\ metrics'.cacheMisses >= metrics.cacheMisses
            /\ metrics'.timeoutHits >= metrics.timeoutHits
            /\ tm'.timeoutHits >= tm.timeoutHits
            /\ getMetrics(metrics', tm').timeoutHits
                  >= getMetrics(metrics, tm).timeoutHits]_vars

\* an updateConfig has just run on a manager that had counted a miss and a timeout
C25_Witness ==
    /\ last.op = "updateConfig"
    /\ metrics.cacheMisses >= 1
    /\ metrics.timeoutHits >= 1
    /\ tm.timeoutHits >= 1

-----------------------------------------------------------------------------
(* C29: the order of the steps of one executeFixtureRequest call *)

\* the step belongs to call c and comes before the call's cache write: the call
\* begins to race, or its race or its fallback settles
BeforeWrite(c) ==
    /\ calls'[c].mgr
    /\ calls'[c] # calls[c]
    /\ calls'[c].pc \in {"racing", "fallback", "settled"}

\* C29: within one call the cache is read, then the executor is invoked, then the
\* cache is written, then the counters are updated: the executor runs only in a
\* call that has read the cache, and no counter, of the cache or of the
\* TimeoutManager, changes in a step of the call that precedes its cache write.
C29_CallOrder ==
    [][\A c \in DOMAIN calls :
          /\ (Begins(c) /\ calls'[c].fixtureRuns = 1)
                 => get(cache, metrics, calls'[c].cacheKey, now).cache = cache'
          /\ BeforeWrite(c)
                 => /\ metrics' = metrics
                    /\ tm'.totalRequests = tm.totalRequests
                    /\ tm'.timeoutHits = tm.timeoutHits]_vars

-----------------------------------------------------------------------------
(* C26: the budget read from the environment *)

\* C26: a TimeoutManager constructed without a budget in its config has a budget
\* that is a positive integer, and that budget is 35 when FIXTURE_TIMEOUT_MS is
\* missing (unset or empty) or malformed (parseInt finds no integer in it).
C26_DefaultBudget ==
    (env.constructed /\ "fixtureTimeoutMs" \notin DOMAIN env.given)
        => LET text == env.FIXTURE_TIMEOUT_MS
               budget == env.config.fixtureTimeoutMs
           IN  /\ (text \in {Unset, <<>>} \/ parseInt(text) = NaN) => budget = <<35>>
               /\ budget # NaN
               /\ budget[1] > 0

-----------------------------------------------------------------------------
(* C31: the classification of outcomes *)

\* C31: every result returned by fetchWithTimeout (a settled call) and by
\* executeFixtureRequest (a finished manager call) is classified consistently:
\* fromCache holds exactly when the source is 'cache', a 'cache' or 'fixture' source
\* has timedOut false, and the source is 'passthrough' exactly when timedOut holds.
C31_Classification ==
    \A c \in DOMAIN calls :
        LET out == calls[c].out
        IN  (calls[c].pc \in {"settled", "done"} /\ out.kind = "value")
               => /\ out.source \in {"cache", "fixture", "passthrough"}
                  /\ out.fromCache <=> out.source = "cache"
                  /\ out.source \in {"cache", "fixture"} => ~out.timedOut
                  /\ out.source = "passthrough" <=> out.timedOut

\* executeFixtureRequest has returned a fixture result: not from the cache, not
\* timed out
C31_Witness ==
    \E c \in DOMAIN calls :
        /\ calls[c].mgr
        /\ calls[c].pc = "done"
        /\ calls[c].out = Returned("v1", FALSE, "fixture", FALSE)

-----------------------------------------------------------------------------
(* C32: bounded waiting *)

\* C32: every call of fetchWithTimeout that is racing eventually settles, also when
\* its primary operation never does; and a call decided by the timer that has no
\* fallback to use has failed with the timeout error of its budget.
C32_BoundedWaiting ==
    /\ \A c \in CallIds : (calls[c].pc = "racing") ~> (calls[c].pc = "settled")
    /\ [](\A c \in CallIds :
            (/\ calls[c].pc = "settled"
             /\ calls[c].first = "timer"
             /\ ~(calls[c].hasFallback /\ calls[c].passthroughOn))
                => calls[c].out = Thrown(TimeoutError(calls[c].timeoutMs)))

\* a call whose primary never settles and that had no fallback has settled, after
\* its budget of 2, with the timeout error
C32_Witness ==
    \E c \in CallIds :
        /\ calls[c].pc = "settled"
        /\ calls[c].first = "timer"
        /\ ~calls[c].primaryPending
        /\ ~calls[c].hasFallback
        /\ calls[c].timeoutMs = 2
        /\ now >= 2
        /\ calls[c].out = Thrown(TimeoutError(2))

-----------------------------------------------------------------------------
(* C33: how often the operations are invoked *)

\* C33: a finished executeFixtureRequest call has invoked the fixture operation
\* not at all when it returned from the cache and exactly once otherwise; a call
\* never invokes the passthrough operation more than once, and a call that
\* returned source 'fixture' or 'cache' has not invoked it.
C33_InvokedOnce ==
    \A c \in DOMAIN calls :
        LET call == calls[c]
            cached == call.out.kind = "value" /\ call.out.source = "cache"
        IN  /\ call.passthroughRuns <= 1
            /\ (call.mgr /\ call.pc = "done")
                   => /\ call.fixtureRuns = IF cached THEN 0 ELSE 1
                      /\ (call.out.kind = "value"
                             /\ call.out.source \in {"fixture", "cache"})
                            => call.passthroughRuns = 0

\* a call that timed out has returned the passthrough's result after one invocation
\* of each operation
C33_Witness ==
    \E c \in DOMAIN calls :
        /\ calls[c].mgr
        /\ calls[c].pc = "done"
        /\ calls[c].out.kind = "value"
        /\ calls[c].out.source = "passthrough"
        /\ calls[c].fixtureRuns = 1
        /\ calls[c].passthroughRuns = 1

-----------------------------------------------------------------------------
(* C34: the hits the cache counts and the cache results the callers get *)

\* C34: a call's lookup is counted by the cache as a hit exactly when the call
\* returns fromCache true without running the fixture operation, so that cacheHits
\* stays equal to the number of calls that returned from the cache.
C34_HitsAreCacheResults ==
    [][\A c \in DOMAIN calls :
          Begins(c)
             => (metrics'.cacheHits = metrics.cacheHits + 1
                   <=> /\ calls'[c].pc = "done"
                       /\ calls'[c].out.fromCache
                       /\ calls'[c].fixtureRuns = 0)]_vars

-----------------------------------------------------------------------------
(* C35: timeouts and requests of the TimeoutManager *)

\* C35: in every reachable state, also after a reset() that ran while calls were
\* in flight, the TimeoutManager has counted no more timeouts than requests, so
\* that the timeout rate it reports lies between 0 and 1.
C35_HitsWithinRequests ==
    /\ tm.timeoutHits <= tm.totalRequests
    /\ getMetrics(metrics, tm).timeoutHits <= getMetrics(metrics, tm).totalRequests

-----------------------------------------------------------------------------
(* C36: the key of the cache write *)

\* C36: the cache write of a call goes to the key the call read, built from the
\* scenario name and seed that were current when the call began: after the write
\* that key holds the call's result, written now, and every other entry of the
\* Map was there before and is unchanged, whatever scenario is current by then.
C36_WriteKeyIsReadKey ==
    [][\A c \in DOMAIN calls :
          Stores(c) =>
             LET call == calls[c]
                 atStart == [route |-> call.cacheKey.route,
                             params |-> call.cacheKey.params,
                             scenario |-> call.scenario.name,
                             seed |-> IF call.scenario.seed = 0 THEN 42
                                      ELSE call.scenario.seed]
                 key == generateKey(atStart)
             IN  /\ call.cacheKey = atStart
                 /\ MapHas(cache', key)
                 /\ EntryOf(cache', key).data = call.out.result
                 /\ EntryOf(cache', key).timestamp = now
                 /\ \A k \in Keys(cache') \ {key} :
                        MapHas(cache, k) /\ EntryOf(cache', k) = EntryOf(cache, k)]_vars

\* a call begun under baseline has just stored its result under the baseline key
\* while heavyTail is the current scenario
C36_Witness ==
    \E c \in DOMAIN calls :
        /\ calls[c].mgr
        /\ calls[c].pc = "done"
        /\ calls[c].out.kind = "value"
        /\ calls[c].out.source = "fixture"
        /\ calls[c].scenario.name = Baseline
        /\ currentScenario.name = HeavyTail
        /\ MapHas(cache, generateKey(calls[c].cacheKey))
        /\ EntryOf(cache, generateKey(calls[c].cacheKey)).timestamp = now
        /\ calls[c].cacheKey.scenario = Baseline

-----------------------------------------------------------------------------
(* C37: a scenario switch and the entries cached before it *)

\* C37: a step that changes the current scenario leaves the Map, with all its
\* entries, and the cache counters as they were; and a request made after
\* switching away from and back to the scenario under which a live entry of its
\* key was cached is served that entry, without running the fixture operation.
C37_SwitchKeepsEntries ==
    [][/\ currentScenario' # currentScenario
           => /\ cache' = cache
              /\ metrics' = metrics
       /\ \A c \in DOMAIN calls :
              LET k == generateKey(calls'[c].cacheKey)
              IN  (/\ Begins(c)
                   /\ CacheInUse(pmConfig, calls'[c].enableCache)
                   /\ Live(k)
                   /\ k \in away
                   /\ origin[k] = currentScenario)
                  => /\ calls'[c].pc = "done"
                     /\ calls'[c].out
                           = Returned(EntryOf(cache, k).data, FALSE, "cache", TRUE)
                     /\ calls'[c].fixtureRuns = 0]_vars

-----------------------------------------------------------------------------
(* C38: the periodic sweep removes what has expired *)

\* the entry stored under Map key k at time t is still in the Map, its age exceeds
\* its TTL, and the interval of the cache is set (so the manager is not destroyed)
Overdue(k, t) ==
    /\ cacheOpts.cleanupInterval
    /\ ~destroyed
    /\ \E i \in 1..Len(cache) :
           /\ cache[i].key = k
           /\ cache[i].timestamp = t
           /\ Expired(cache[i], now)

\* the Map keys of the requests the swept manager serves
SweepKeys ==
    { generateKey(RequestKey([name |-> Baseline, seed |-> 42], route, <<>>)) :
          route \in AdminRoutes }

\* C38: while the manager is not destroyed and the interval callback of its cache
\* keeps running, an entry whose age exceeds its TTL is eventually gone from the
\* Map, whether or not any call touches its key again.
C38_ExpiredSwept ==
    \A k \in SweepKeys : \A t \in 0..MaxTime : Overdue(k, t) ~> ~Overdue(k, t)

\* the one call that was made stored an entry, nothing looked its key up again,
\* and a sweep of the manager, which is not destroyed, has left the Map empty
C38_Witness ==
    /\ last.op = "sweep"
    /\ cacheOpts.cleanupInterval
    /\ ~destroyed
    /\ DOMAIN origin # {}
    /\ metrics.cacheHits + metrics.cacheMisses = 1
    /\ cache = <<>>

-----------------------------------------------------------------------------
(* C39: calls made with caching disabled *)

\* options.enableCache of the call that takes a step in slot c
StepOption(c) ==
    IF calls[c].pc = "idle" THEN calls'[c].enableCache ELSE calls[c].enableCache

\* C39: a step of an executeFixtureRequest call taken while caching is disabled,
\* globally or by the call's own option, leaves the Map, with the hit counts and
\* the recency of its entries, and the cacheHits and cacheMisses counters as they
\* were, and does not make the call return with source 'cache'.
C39_DisabledBypasses ==
    [][\A c \in DOMAIN calls :
           (/\ calls'[c] # calls[c]
            /\ (~pmConfig.cache.enabled \/ ~StepOption(c)))
           => /\ cache' = cache
              /\ metrics'.cacheHits = metrics.cacheHits
              /\ metrics'.cacheMisses = metrics.cacheMisses
              /\ calls'[c].out.source = "cache" => calls[c].out.source = "cache"]_vars

\* with caching switched off globally a call has run the fixture operation and
\* returned its result, while a live entry of its key, stored earlier, is still
\* in the Map with no hit counted on it
C39_Witness ==
    \E c \in DOMAIN calls :
        LET k == generateKey(calls[c].cacheKey)
        IN  /\ ~pmConfig.cache.enabled
            /\ calls[c].mgr
            /\ calls[c].pc = "done"
            /\ calls[c].out.source = "fixture"
            /\ calls[c].fixtureRuns = 1
            /\ Live(k)
            /\ EntryOf(cache, k).hitCount = 0
            /\ metrics.cacheHits = 0

=============================================================================
